---- MODULE Spec2Model ----
(***************************************************************************)
(* Verification model of LAGE_Metadata_Extraction.                         *)
(*                                                                         *)
(*  - RunAggregator: Src/Extractor_Nanopore.py (is_nanopore_file,          *)
(*    one_single_file and its helpers) over the persisted                  *)
(*    Generalized_metadata.json, sequentially (Spec) and with two          *)
(*    concurrent invocations (SpecConc).                                   *)
(*  - TypeClassifier: Src/Main_Auto_Processor.py (EXTRACTORS,              *)
(*    detect_file_type) with the six validation predicates (SpecClassify). *)
(*  - Header decoding: get_csv_section / extract_metadata of the           *)
(*    BeadStudio and Illumina sample-sheet extractors (SpecHeader).        *)
(*  - Sequencing summary: extract_metadata_from_Sequencing_txt over reads  *)
(*    tables (SpecReads).                                                  *)
(*  - SampleHistoryReconciler: Src/Sample_History_Extractor.py             *)
(*    (get_sample_history) over a directory of records (SpecHistory).      *)
(*  - Sectioned reports: extract_all_sections of the FM-Generation and     *)
(*    FM-AutoTilt extractors (SpecSections).                               *)
(*  - one_single_file of all eight extractors on one file, and the        *)
(*    single-file entry points of Src/Main.py (SpecValidate).              *)
(*  - Directory batches: process_all_csv_files of the Thermal and          *)
(*    BeadStudio extractors and the --batch walk of main (SpecBatch).      *)
(***************************************************************************)
EXTENDS Integers, Sequences, FiniteSets, TLC

VARIABLES disk, ncalls, lastCall, ridSrc, lastOf, ret, procs, cls, hdr,
          reads, hist, val, sec, bat

vars == <<disk, ncalls, lastCall, ridSrc, lastOf, ret, procs, cls, hdr,
          reads, hist, val, sec, bat>>

(***************************************************************************)
(* Python / JSON scalar values.  A value carries its type, so that None,   *)
(* NaN, "" and "unknown" are all different values.                         *)
(***************************************************************************)
Str(s) == [t |-> "str", s |-> s, n |-> 0]

Num(i) == [t |-> "int", s |-> "", n |-> i]

None == [t |-> "null", s |-> "", n |-> 0]

NaN == [t |-> "nan", s |-> "", n |-> 0]

Unknown == Str("unknown")

\* Python truthiness of a scalar: None, "" and 0 are falsy, NaN is truthy.
Truthy(v) ==
    ~ (v.t = "null" \/ (v.t = "str" /\ v.s = "") \/ (v.t = "int" /\ v.n = 0))

\* dict.get(k, default)
Get(d, k, default) == IF k \in DOMAIN d THEN d[k] ELSE default

\* Mutant of Update: setdefault semantics, an existing key keeps its value.
Update_KeepOld(d, p) ==
    [k \in (DOMAIN d) \cup (DOMAIN p) |-> IF k \in DOMAIN d THEN d[k] ELSE p[k]]

\* dict.update(p)
Update(d, p) ==
    [k \in (DOMAIN d) \cup (DOMAIN p) |-> IF k \in DOMAIN p THEN p[k] ELSE d[k]]

EmptyDict == [k \in {} |-> None]

\* s.lower() on the keys of the .txt summaries and on sample identifiers.
Lower(s) ==
    CASE s = "Protocol_Run_ID" -> "protocol_run_id"
      [] s = "Run_ID" -> "run_id"
      [] s = "Instrument" -> "instrument"
      [] s = "S1" -> "s1"
      [] s = "S2" -> "s2"
      [] s = "S9" -> "s9"
      [] s = "None" -> "none"
      [] OTHER -> s

(***************************************************************************)
(* Input files.  A file is a record                                        *)
(*   name     base name                                                    *)
(*   present  os.path.isfile / open() finds it                             *)
(*   utf8     its bytes decode as UTF-8 (open(..., encoding="utf-8"))      *)
(*   locale   its bytes decode in the locale's encoding (open(path, 'r'))  *)
(*   lines    its lines of text                                            *)
(* The operators below give the string tests the code makes on names and   *)
(* lines.                                                                  *)
(***************************************************************************)
\* fname.endswith(ext) on the lower-cased base name.
EndsWith(f, ext) ==
    CASE ext = ".csv" ->
           f.name \in { "sample_sheet_r1.csv", "sample_sheet_r2.csv",
                        "sample_sheet_caps.csv", "sample_sheet_nan.csv",
                        "sample_sheet_empty.csv", "throughput_a.csv",
                        "throughput_b.csv", "throughput_nan.csv",
                        "pore_scan_a.csv", "temperature_a.csv",
                        "pore_activity_a.csv", "latin1.csv", "missing.csv",
                        "plate.csv", "run_a.csv" }
      [] ext = ".txt" ->
           f.name \in { "final_summary_r2.txt", "final_summary_r3.txt",
                        "final_summary_noid.txt", "sequencing_summary_a.txt",
                        "sequencing_summary_latin1.txt" }
      [] ext = ".json" -> f.name = "report_a.json"
      [] ext = ".md" -> f.name \in {"report_a.md", "report_notrack.md"}
      [] ext = ".pod5" -> f.name = "reads.pod5"
      [] OTHER -> FALSE

\* fname.startswith(prefix)
StartsWith(f, prefix) ==
    CASE prefix = "final_summary" ->
           f.name \in { "final_summary_r2.txt", "final_summary_r3.txt",
                        "final_summary_noid.txt" }
      [] prefix = "sequencing_summary" ->
           f.name \in {"sequencing_summary_a.txt", "sequencing_summary_latin1.txt"}
      [] OTHER -> FALSE

\* word in fname
NameHas(f, word) ==
    word = "report"
    /\ f.name \in {"report_a.json", "report_a.md", "report_notrack.md"}

\* os.path.isfile(file_path)
IsFile(f) == f.present

\* open(path, encoding="utf-8") followed by a read decodes without error.
Utf8Ok(f) == f.utf8

\* kw in line.lower(), for the keywords the validation predicates look for.
LowerHas(line, kw) ==
    CASE kw = "protocol_run_id" ->
           line \in {"protocol_run_id,sample_id", "Protocol_Run_ID,sample_id"}
      [] kw = "channel state" ->
           line = "Channel State,Experiment Time (minutes),State Time (samples)"
      [] kw = "experiment time" ->
           line \in {"Experiment Time (minutes),Reads",
                     "Channel State,Experiment Time (minutes),State Time (samples)"}
      [] kw = "mux_scan_assessment" -> line = "channel,mux_scan_assessment"
      [] kw = "current_target_temperature" ->
           line = "current_target_temperature,num_reads"
      [] kw = "beadstudio" ->
           line \in {"Investigator Name,BeadStudio", "Instrument Name,BeadStudio",
                     "Side,BeadStudio", "S1,BeadStudio"}
      [] kw = "[header]" -> line = "[Header]"
      [] kw = "[" ->
           line \in {"[Header]", "[Data]", "[Manifests]",
                     "[FTM Through-Focus Stack]", "[Overall]",
                     "[FocusModel Red]", "[Tilt=1, Side A]", "[File Type]",
                     "[File Name]", "[Metadata]"}
      [] kw = "workflow,generatefastq" -> line = "Workflow,GenerateFASTQ"
      [] kw = "chemistry,amplicon" -> line = "Chemistry,Amplicon"
      [] OTHER -> FALSE

\* kw in f.readline().lower()
FirstLineHas(f, kw) == f.lines # <<>> /\ LowerHas(f.lines[1], kw)

(***************************************************************************)
(* Nanopore input files, by name, and what the readers return for them.    *)
(***************************************************************************)
NanoNames ==
    { "sample_sheet_r1.csv", "sample_sheet_r2.csv", "sample_sheet_caps.csv",
      "sample_sheet_nan.csv", "sample_sheet_empty.csv",
      "final_summary_r2.txt", "final_summary_r3.txt", "final_summary_noid.txt",
      "throughput_a.csv", "throughput_b.csv", "throughput_nan.csv",
      "sequencing_summary_a.txt", "sequencing_summary_latin1.txt",
      "report_a.json", "report_a.md",
      "report_notrack.md", "pore_scan_a.csv", "temperature_a.csv",
      "pore_activity_a.csv", "reads.pod5", "latin1.csv", "missing.csv" }

\* The first line of a nanopore .csv file.
HeaderLine(n) ==
    CASE n \in {"sample_sheet_r1.csv", "sample_sheet_r2.csv",
                "sample_sheet_nan.csv", "sample_sheet_empty.csv"} ->
           "protocol_run_id,sample_id"
      [] n = "sample_sheet_caps.csv" -> "Protocol_Run_ID,sample_id"
      [] n \in {"throughput_a.csv", "throughput_b.csv", "throughput_nan.csv"} ->
           "Experiment Time (minutes),Reads"
      [] n = "pore_scan_a.csv" -> "channel,mux_scan_assessment"
      [] n = "temperature_a.csv" -> "current_target_temperature,num_reads"
      [] n = "pore_activity_a.csv" ->
           "Channel State,Experiment Time (minutes),State Time (samples)"
      [] OTHER -> "x,y"

\* os.path.join(root_dir, file_name): the file of that name.
NanoFile(n) ==
    [name |-> n,
     present |-> n # "missing.csv",
     utf8 |-> n \notin {"latin1.csv", "sequencing_summary_latin1.txt"},
     locale |-> TRUE,
     lines |-> <<HeaderLine(n)>>]

\* pd.read_csv(path): the data rows (below the header line), one dict per row.
Frame(f) ==
    CASE f = "sample_sheet_r1.csv" ->
           << [protocol_run_id |-> Str("R1"), sample_id |-> Str("S1")],
              [protocol_run_id |-> Str("R9"), sample_id |-> Str("S2")] >>
      [] f = "sample_sheet_r2.csv" ->
           << [protocol_run_id |-> Str("R2"), sample_id |-> Str("S1")] >>
      [] f = "sample_sheet_caps.csv" ->
           << [Protocol_Run_ID |-> Str("R1"), sample_id |-> Str("S1")] >>
      [] f = "sample_sheet_nan.csv" ->
           << [protocol_run_id |-> NaN, sample_id |-> Str("S1")] >>
      [] f = "throughput_a.csv" ->
           << [k \in {"Experiment Time (minutes)", "Reads"} |->
                 IF k = "Reads" THEN Num(10) ELSE Num(1)],
              [k \in {"Experiment Time (minutes)", "Reads"} |->
                 IF k = "Reads" THEN Num(20) ELSE Num(2)] >>
      [] f = "throughput_b.csv" ->
           << [k \in {"Experiment Time (minutes)", "Reads"} |->
                 IF k = "Reads" THEN Num(30) ELSE Num(3)] >>
      [] f = "throughput_nan.csv" ->
           << [k \in {"Experiment Time (minutes)", "Reads"} |->
                 IF k = "Reads" THEN NaN ELSE Num(4)] >>
      [] f = "pore_scan_a.csv" ->
           << [channel |-> Num(1), mux_scan_assessment |-> Str("single_pore")],
              [channel |-> Num(2), mux_scan_assessment |-> Str("saturated")],
              [channel |-> Num(3), mux_scan_assessment |-> Str("single_pore")] >>
      [] f = "temperature_a.csv" ->
           << [current_target_temperature |-> Num(34), num_reads |-> Num(5)],
              [current_target_temperature |-> Num(35), num_reads |-> Num(9)] >>
      [] f = "pore_activity_a.csv" ->
           << [k \in {"Channel State", "Experiment Time (minutes)",
                      "State Time (samples)"} |->
                 IF k = "Channel State" THEN Str("pore") ELSE Num(2)],
              [k \in {"Channel State", "Experiment Time (minutes)",
                      "State Time (samples)"} |->
                 IF k = "Channel State" THEN Str("pore") ELSE Num(3)] >>
      [] OTHER -> <<>>

\* The lines of a final_summary .txt file: <<text before '=', text after>>,
\* or a one-element tuple for a line without '='.
TxtLines(f) ==
    CASE f = "final_summary_r2.txt" ->
           << <<"instrument", "MN1">>, <<"Protocol_Run_ID", "R2">>,
              <<"acquisition_run_id", "A7">> >>
      [] f = "final_summary_r3.txt" ->
           << <<"protocol_run_id", "">>, <<"Run_ID", "R3">> >>
      [] f = "final_summary_noid.txt" ->
           << <<"started">>, <<"Instrument", "MN1">> >>
      [] OTHER -> <<>>

\* A row of a sequencing_summary table as csv.DictReader yields it: one cell
\* per column, a string, or None for a cell a short row does not reach.
SeqRow(flag, sample, experiment, run, pore, qscore) ==
    [passes_filtering |-> flag, sample_id |-> sample, experiment_id |-> experiment,
     run_id |-> run, pore_type |-> pore, mean_qscore_template |-> qscore]

SeqColumns ==
    {"passes_filtering", "sample_id", "experiment_id", "run_id", "pore_type",
     "mean_qscore_template"}

\* A sequencing_summary .txt file (csv.DictReader, tab): whether open() and
\* decoding succeed, the columns of its header line and its data rows.
\* sequencing_summary_latin1.txt holds bytes that do not decode as UTF-8.
SeqTable(f) ==
    CASE f = "sequencing_summary_a.txt" ->
           [readable |-> TRUE, columns |-> SeqColumns,
            rows |-> << SeqRow(Str("TRUE"), Str("S1"), Str("E1"), Str("R1"),
                               Str("R10"), Str("10")),
                        SeqRow(Str("FALSE"), Str("S1"), Str("E1"), Str("R1"),
                               Str("R10"), Str("12")),
                        SeqRow(Str("True"), Str("S2"), Str("E1"), Str("R1"),
                               Str("R10"), Str("14")) >>]
      [] OTHER -> [readable |-> FALSE, columns |-> {}, rows |-> <<>>]

\* The body of a report .md file: whether it has a "Tracking ID" heading and
\* the JSON object between the first '{' and the first '}'.
MdBody(f) ==
    CASE f = "report_a.md" ->
           [tracking |-> TRUE, json |-> [run_id |-> Str("R5")]]
      [] OTHER -> [tracking |-> FALSE, json |-> EmptyDict]

\* json.load of a report .json file.
JsonBody(f) ==
    CASE f = "report_a.json" -> [host |-> [product_name |-> Str("MinION")]]
      [] OTHER -> EmptyDict

(***************************************************************************)
(* Src/Extractor_Nanopore.py                                               *)
(***************************************************************************)
\* is_nanopore_file: a subtype tag, "False" or "None" (the implicit return).
is_nanopore_file(f) ==
    LET tail ==
          IF EndsWith(f, ".md") /\ NameHas(f, "report") THEN "report_in_markdown"
          ELSE IF EndsWith(f, ".pod5") THEN "pod5_file"
          ELSE IF EndsWith(f, ".fastq.gz") THEN "fastq_file"
          ELSE IF EndsWith(f, ".bam") THEN "bam_file"
          ELSE IF EndsWith(f, ".bam.bai") THEN "bam_index_file"
          ELSE "None"
    IN  IF ~ IsFile(f) THEN "False"
        ELSE IF EndsWith(f, ".csv") THEN
               IF ~ Utf8Ok(f) THEN "False"
               ELSE IF FirstLineHas(f, "protocol_run_id") THEN "sample_sheet"
               ELSE IF FirstLineHas(f, "channel state") THEN "pore_activity"
               ELSE IF FirstLineHas(f, "experiment time") THEN "throughput"
               ELSE IF FirstLineHas(f, "mux_scan_assessment") THEN "pore_scan"
               ELSE IF FirstLineHas(f, "current_target_temperature")
                    THEN "temperature"
               ELSE tail
        ELSE IF EndsWith(f, ".json") /\ NameHas(f, "report") THEN "json_report"
        ELSE IF EndsWith(f, ".txt") /\ StartsWith(f, "final_summary")
             THEN "final_summary"
        ELSE IF EndsWith(f, ".txt") /\ StartsWith(f, "sequencing_summary")
             THEN "sequencing_summary"
        ELSE tail

\* file_type = is_nanopore_file(path_file)
FileType(n) == is_nanopore_file(NanoFile(n))

\* extract_metadata_from_txt: meta[k.strip().lower()] = v.strip() for every
\* line that has an '=', later lines overwriting earlier ones.
RECURSIVE TxtMeta(_, _)
TxtMeta(lines, meta) ==
    IF lines = <<>> THEN meta
    ELSE LET line == Head(lines)
         IN  TxtMeta(Tail(lines),
                     IF Len(line) = 2
                     THEN Update(meta, [k \in {Lower(line[1])} |-> Str(line[2])])
                     ELSE meta)

extract_metadata_from_txt(f) == TxtMeta(TxtLines(f), EmptyDict)

\* A float with two decimals, in hundredths.
Flt(h) == [t |-> "float", s |-> "", n |-> h]

\* row.get(col, default) on a DictReader row of a table with these columns.
RowGet(columns, row, col, default) == IF col \in columns THEN row[col] ELSE default

\* s.upper() on the filtering flags.
Upper(s) == IF s \in {"TRUE", "True", "true"} THEN "TRUE" ELSE s

\* float(v): [err, nan, n].  A number gives its value, the text "nan" gives
\* the float NaN, any other text raises ValueError and None TypeError.
ParseFloat(v) ==
    CASE v.t = "int" -> [err |-> FALSE, nan |-> FALSE, n |-> v.n]
      [] v.t = "str" /\ v.s = "10" -> [err |-> FALSE, nan |-> FALSE, n |-> 10]
      [] v.t = "str" /\ v.s = "11" -> [err |-> FALSE, nan |-> FALSE, n |-> 11]
      [] v.t = "str" /\ v.s = "12" -> [err |-> FALSE, nan |-> FALSE, n |-> 12]
      [] v.t = "str" /\ v.s = "14" -> [err |-> FALSE, nan |-> FALSE, n |-> 14]
      [] v.t = "str" /\ v.s = "nan" -> [err |-> FALSE, nan |-> TRUE, n |-> 0]
      [] OTHER -> [err |-> TRUE, nan |-> FALSE, n |-> 0]

\* Number of rows of a reads table whose filtering flag, upper-cased, is TRUE.
RECURSIVE CountPassed(_, _)
CountPassed(columns, rows) ==
    IF rows = <<>> THEN 0
    ELSE (IF Upper(RowGet(columns, Head(rows), "passes_filtering", Str("")).s) = "TRUE"
          THEN 1 ELSE 0)
         + CountPassed(columns, Tail(rows))

\* qscore_sum after the pass: [nan, n].  A score float() rejects adds nothing;
\* a NaN score makes the sum NaN.
RECURSIVE QscoreSum(_, _)
QscoreSum(columns, rows) ==
    IF rows = <<>> THEN [nan |-> FALSE, n |-> 0]
    ELSE LET q == ParseFloat(RowGet(columns, Head(rows), "mean_qscore_template", Num(0)))
             rest == QscoreSum(columns, Tail(rows))
         IN  [nan |-> q.nan \/ rest.nan,
              n |-> (IF q.err THEN 0 ELSE q.n) + rest.n]

\* round(total / count, 2) in hundredths, ties to the even hundredth.
Round2(total, count) ==
    LET q == (100 * total) \div count
        r == (100 * total) % count
    IN  IF 2 * r < count THEN q
        ELSE IF 2 * r > count THEN q + 1
        ELSE IF q % 2 = 0 THEN q ELSE q + 1

\* The set a column is collected into: its truthy cells.
Collected(columns, rows, col) ==
    { RowGet(columns, rows[i], col, None).s :
        i \in { j \in DOMAIN rows : Truthy(RowGet(columns, rows[j], col, None)) } }

\* The order of str comparison (by code point) on the identifiers in use.
Rank(s) ==
    CASE s = "E1" -> 1 [] s = "E2" -> 2
      [] s = "R1" -> 3 [] s = "R10" -> 4 [] s = "R9" -> 5
      [] s = "S1" -> 6 [] s = "S2" -> 7 [] s = "s1" -> 8
      [] OTHER -> 0

RECURSIVE SortedList(_)
\* sorted(list(S))
SortedList(S) ==
    IF S = {} THEN <<>>
    ELSE LET m == CHOOSE x \in S : \A y \in S : Rank(x) <= Rank(y)
         IN  <<Str(m)>> \o SortedList(S \ {m})

RECURSIVE FirstSeen(_, _, _)
\* The truthy cells of a column in the order of their first appearance.
FirstSeen(columns, rows, col) ==
    IF rows = <<>> THEN <<>>
    ELSE LET init == FirstSeen(columns, SubSeq(rows, 1, Len(rows) - 1), col)
             v == RowGet(columns, rows[Len(rows)], col, None)
         IN  IF Truthy(v) /\ \A i \in DOMAIN init : init[i] # v
             THEN Append(init, v) ELSE init

\* Mutant of UniqueSorted: the identifiers are listed as first seen.
UniqueSorted_FirstSeen(columns, rows, col) == FirstSeen(columns, rows, col)

\* meta[key] after the pass: sorted(list(set of the column's truthy cells)).
UniqueSorted(columns, rows, col) == SortedList(Collected(columns, rows, col))

\* A row whose filtering flag is None makes .upper() raise AttributeError.
FlagRaises(columns, rows) ==
    \E i \in DOMAIN rows : RowGet(columns, rows[i], "passes_filtering", Str("")).t # "str"

\* extract_metadata_from_Sequencing_txt on a file of that name and content.
SequencingSummary(file_name, table) ==
    IF ~ table.readable \/ FlagRaises(table.columns, table.rows) THEN EmptyDict
    ELSE LET rows == table.rows
             cols == table.columns
             total == QscoreSum(cols, rows)
         IN  [file_name |-> Str(file_name),
              total_reads |-> Num(Len(rows)),
              passed_filtering_count |-> Num(CountPassed(cols, rows)),
              unique_samples |-> UniqueSorted(cols, rows, "sample_id"),
              unique_experiments |-> UniqueSorted(cols, rows, "experiment_id"),
              unique_run_ids |-> UniqueSorted(cols, rows, "run_id"),
              mean_qscore |-> IF rows = <<>> THEN Flt(0)
                              ELSE IF total.nan THEN NaN
                              ELSE Flt(Round2(total.n, Len(rows))),
              pore_types |-> UniqueSorted(cols, rows, "pore_type")]

extract_metadata_from_Sequencing_txt(f) == SequencingSummary(f, SeqTable(f))

\* Number of rows of a frame whose column col holds the value v.
RECURSIVE CountEq(_, _, _)
CountEq(rows, col, v) ==
    IF rows = <<>> THEN 0
    ELSE (IF Get(Head(rows), col, None) = v THEN 1 ELSE 0)
         + CountEq(Tail(rows), col, v)

extract_pore_scan_stats(f) ==
    IF Frame(f) = <<>> \/ "mux_scan_assessment" \notin DOMAIN Frame(f)[1]
    THEN EmptyDict
    ELSE [available_pores |->
              Num(CountEq(Frame(f), "mux_scan_assessment", Str("single_pore"))),
          saturated_wells |->
              Num(CountEq(Frame(f), "mux_scan_assessment", Str("saturated"))),
          total_wells |-> Num(Len(Frame(f)))]

\* extract_metadata_from_md: the tracking-id object, or None without the heading.
extract_metadata_from_md(f) == IF MdBody(f).tracking THEN MdBody(f).json ELSE None

\* int(x) / float(x) on a cell raises on NaN.
Converts(v) == v.t = "int"

RECURSIVE SumWhere(_, _, _, _)
\* df.groupby(by)[col].sum() for one group value.
SumWhere(rows, by, g, col) ==
    IF rows = <<>> THEN 0
    ELSE (IF Head(rows)[by] = g THEN Head(rows)[col].n ELSE 0)
         + SumWhere(Tail(rows), by, g, col)

RECURSIVE MaxOf(_, _)
\* df[col].max()
MaxOf(rows, col) ==
    IF Len(rows) = 1 THEN Head(rows)[col].n
    ELSE LET m == MaxOf(Tail(rows), col)
         IN  IF Head(rows)[col].n > m THEN Head(rows)[col].n ELSE m

\* One key of a payload: {key: fragment}.
One(key, fragment) == [k \in {key} |-> fragment]

Built(payload) == [raised |-> FALSE, payload |-> payload]

Raised == [raised |-> TRUE, payload |-> EmptyDict]

\* The data_payload built by one_single_file for a file of type ft, or the
\* exception raised while building it.
BuildPayload(ft, f) ==
    LET df == Frame(f)
        last == df[Len(df)]
    IN
    CASE ft = "sample_sheet" ->
           IF df # <<>> THEN Built(One("metadata_Sample_Sheet", df[1]))
           ELSE Built(EmptyDict)
      [] ft = "final_summary" ->
           Built(One("metadata_Final_Summary", extract_metadata_from_txt(f)))
      [] ft = "sequencing_summary" ->
           Built(One("metadata_Sequencing_Summary",
                     extract_metadata_from_Sequencing_txt(f)))
      [] ft = "pore_activity" ->
           IF df = <<>> THEN Built(EmptyDict)
           ELSE IF ~ ({"Channel State", "State Time (samples)",
                       "Experiment Time (minutes)"} \subseteq DOMAIN df[1])
                THEN Raised
           ELSE Built(One("pore_activity_summary",
                   [states_total_samples |->
                       [g \in {df[i]["Channel State"].s : i \in DOMAIN df} |->
                           Num(SumWhere(df, "Channel State", Str(g),
                                        "State Time (samples)"))],
                    total_logged_minutes |->
                       Num(MaxOf(df, "Experiment Time (minutes)"))]))
      [] ft = "throughput" ->
           IF df = <<>> THEN Built(EmptyDict)
           ELSE IF \E c \in {"Reads", "Basecalled Reads Passed", "Basecalled Bases",
                             "Experiment Time (minutes)"} :
                       ~ Converts(Get(last, c, Num(0)))
                THEN Raised
           ELSE Built(One("throughput",
                   [total_reads |-> Get(last, "Reads", Num(0)),
                    passed_reads |-> Get(last, "Basecalled Reads Passed", Num(0)),
                    bases |-> Get(last, "Basecalled Bases", Num(0)),
                    run_time_minutes |->
                        Get(last, "Experiment Time (minutes)", Num(0))]))
      [] ft = "temperature" ->
           IF df = <<>> THEN Built(EmptyDict)
           ELSE IF \E c \in {"current_target_temperature", "current_speed",
                             "num_reads", "acquisition_duration"} :
                       ~ Converts(Get(last, c, Num(0)))
                THEN Raised
           ELSE Built(One("thermal_control",
                   [last_target_temp |->
                        Get(last, "current_target_temperature", Num(0)),
                    last_sequencing_speed |-> Get(last, "current_speed", Num(0)),
                    total_recorded_reads |-> Get(last, "num_reads", Num(0)),
                    run_duration_at_log |->
                        Get(last, "acquisition_duration", Num(0))]))
      [] ft = "pore_scan" ->
           Built(One("pore_scan_diagnostics", extract_pore_scan_stats(f)))
      [] ft = "report_in_markdown" ->
           Built(One("Tracking ID", extract_metadata_from_md(f)))
      [] ft = "json_report" ->
           Built(One("instrument_info", Get(JsonBody(f), "host", EmptyDict)))
      [] OTHER -> Built(EmptyDict)

\* a or b
Or(a, b) == IF Truthy(a) THEN a ELSE b

\* Mutant of ResolveRunId: the final-summary branch without its
\* run_id == "unknown" test.
ResolveRunId_Unguarded(ft, payload, run_id) ==
    IF ft = "sample_sheet" /\ payload # EmptyDict
    THEN Get(payload["metadata_Sample_Sheet"], "protocol_run_id", Unknown)
    ELSE IF ft = "final_summary"
    THEN Or(Get(payload["metadata_Final_Summary"], "protocol_run_id", None),
            Get(payload["metadata_Final_Summary"], "run_id", None))
    ELSE run_id

\* The General_record["run_id"] left by the sample-sheet and final-summary
\* branches of one_single_file.
ResolveRunId(ft, payload, run_id) ==
    IF ft = "sample_sheet" /\ payload # EmptyDict
    THEN Get(payload["metadata_Sample_Sheet"], "protocol_run_id", Unknown)
    ELSE IF ft = "final_summary" /\ run_id = Unknown
    THEN Or(Get(payload["metadata_Final_Summary"], "protocol_run_id", None),
            Get(payload["metadata_Final_Summary"], "run_id", None))
    ELSE run_id

\* Mutant of AppendIfNew: the append without the membership test.
AppendAlways(files_processed, file_name) == Append(files_processed, file_name)

\* Mutant of AppendIfNew: a new name is inserted at the front.
PrependIfNew(files_processed, file_name) ==
    IF \E i \in DOMAIN files_processed : files_processed[i] = file_name
    THEN files_processed
    ELSE <<file_name>> \o files_processed

\* if file_name not in files_processed: files_processed.append(file_name)
AppendIfNew(files_processed, file_name) ==
    IF \E i \in DOMAIN files_processed : files_processed[i] = file_name
    THEN files_processed
    ELSE Append(files_processed, file_name)

InitRecord == [run_id |-> Unknown, metrics |-> EmptyDict, files_processed |-> <<>>]

\* The persisted Generalized_metadata.json: absent, a record, or unparsable.
Absent == [state |-> "absent", rec |-> InitRecord]

Stored(rec) == [state |-> "ok", rec |-> rec]

Truncated == [state |-> "corrupt", rec |-> InitRecord]

\* Mutant of LoadRecord: every call starts from a fresh record.
LoadRecord_Fresh(d) == InitRecord

\* Step 1 of one_single_file: load the master record or initialise it.
LoadRecord(d) == IF d.state = "ok" THEN d.rec ELSE InitRecord

\* Steps 2 and 3 of one_single_file on the loaded record: the in-memory
\* General_record and whether it is written back.
Merge(rec, f) ==
    LET ft == FileType(f)
        b == BuildPayload(ft, f)
        rid == IF b.raised THEN rec.run_id
               ELSE ResolveRunId(ft, b.payload, rec.run_id)
    IN  IF b.raised \/ b.payload = EmptyDict
        THEN [write |-> FALSE, rec |-> [rec EXCEPT !.run_id = rid]]
        ELSE [write |-> TRUE,
              rec |-> [run_id |-> rid,
                       metrics |-> Update(rec.metrics, b.payload),
                       files_processed |->
                           AppendIfNew(rec.files_processed, f)]]

(***************************************************************************)
(* Sequential runs of one_single_file against one output location.         *)
(*   disk      the persisted Generalized_metadata.json                     *)
(*   ret       the General_record returned by the last call                *)
(*   ncalls    number of calls made                                        *)
(*   lastCall  <<file of the last call, file of the call before it>>        *)
(*   ridSrc    the kind of fragment the persisted run_id was taken from    *)
(*   lastOf    per subtype key, the file of its most recent merge          *)
(***************************************************************************)
MaxCalls == 3

NoProcs == [p \in {} |-> 0]

NoClassify == [file |-> "", idx |-> 0]

NoHeader == [file |-> "", step |-> ""]

NoReads == [step |-> ""]

NoHistory == [step |-> ""]

NoValidate == [step |-> ""]

NoSections == [step |-> ""]

NoBatch == [step |-> ""]

\* The variables of the pure-function specifications, and their idle state.
Rest == <<reads, hist, val, sec, bat>>

Idle ==
    /\ reads = NoReads
    /\ hist = NoHistory
    /\ val = NoValidate
    /\ bat = NoBatch
    /\ sec = NoSections
    /\ bat = NoBatch

InitAgg ==
    /\ disk = Absent
    /\ ret = InitRecord
    /\ ncalls = 0
    /\ lastCall = <<"", "">>
    /\ ridSrc = "none"
    /\ lastOf = EmptyDict

Init ==
    /\ InitAgg
    /\ procs = NoProcs
    /\ cls = NoClassify
    /\ hdr = NoHeader
    /\ Idle

\* The source of the run_id after a call on f that found run_id from src.
SourceAfter(f, rec, src) ==
    LET ft == FileType(f)
        b == BuildPayload(ft, f)
    IN  IF b.raised \/ b.payload = EmptyDict THEN src
        ELSE IF ft = "sample_sheet"
             THEN IF "protocol_run_id" \in DOMAIN b.payload["metadata_Sample_Sheet"]
                  THEN "sample_sheet" ELSE "none"
        ELSE IF ft = "final_summary" /\ rec.run_id = Unknown
             THEN IF Truthy(ResolveRunId(ft, b.payload, rec.run_id))
                  THEN "final_summary" ELSE "none"
        ELSE src

\* one_single_file(root_dir, output_dir, f): load, merge, rewrite.
OneSingleFile(f) ==
    /\ ncalls < MaxCalls
    /\ LET rec == LoadRecord(disk)
           m == Merge(rec, f)
           b == BuildPayload(FileType(f), f)
       IN  /\ disk' = IF m.write THEN Stored(m.rec) ELSE disk
           /\ ret' = m.rec
           /\ ridSrc' = IF m.write THEN SourceAfter(f, rec, ridSrc) ELSE ridSrc
           /\ lastOf' = IF m.write
                        THEN [k \in (DOMAIN lastOf) \cup (DOMAIN b.payload) |->
                                IF k \in DOMAIN b.payload THEN f ELSE lastOf[k]]
                        ELSE lastOf
    /\ ncalls' = ncalls + 1
    /\ lastCall' = <<f, lastCall[1]>>
    /\ UNCHANGED <<procs, cls, hdr, Rest>>

Next == \E f \in NanoNames : OneSingleFile(f)

Spec == Init /\ [][Next]_vars

(***************************************************************************)
(* Claims on the sequential RunAggregator (Spec).                           *)
(***************************************************************************)
LastFile == lastCall[1]

PrevFile == lastCall[2]

\* The fragment one_single_file builds from file f for subtype key k.
FragmentOf(f, k) == BuildPayload(FileType(f), f).payload[k]

HasDuplicate(seq) == \E i, j \in DOMAIN seq : i # j /\ seq[i] = seq[j]

IsPrefix(a, b) == Len(a) <= Len(b) /\ \A i \in DOMAIN a : a[i] = b[i]

\* C1: once run_id has been set from a sample-sheet fragment, merging a
\* final-summary fragment (whatever identifier it carries) leaves the
\* persisted run_id unchanged.
C1_SheetRunIdKept ==
    [][ (ridSrc = "sample_sheet"
         /\ FileType(LastFile') = "final_summary")
        => disk'.rec.run_id = disk.rec.run_id ]_vars

\* A final summary carrying R2 has been merged after a sample sheet resolved
\* the run to R1, and the run is still R1.
C1_Witness ==
    /\ ridSrc = "sample_sheet"
    /\ LastFile = "final_summary_r2.txt"
    /\ "metadata_Final_Summary" \in DOMAIN disk.rec.metrics
    /\ disk.rec.metrics["metadata_Final_Summary"]["protocol_run_id"] = Str("R2")
    /\ disk.rec.run_id = Str("R1")

\* C2 (as claimed): once the persisted run_id is an identifier other than
\* "unknown", no later call of either kind changes it.
C2_RunIdNeverChanges ==
    [][ (disk.state = "ok" /\ disk.rec.run_id.t = "str"
         /\ disk.rec.run_id # Unknown)
        => disk'.rec.run_id = disk.rec.run_id ]_vars

\* C3: processing the same file twice in a row leaves, after the second
\* call, the metrics of the first call and adds no files_processed entry.
C3_Idempotent ==
    [][ (ncalls >= 1 /\ ncalls' = ncalls + 1 /\ LastFile' = LastFile)
        => /\ disk'.rec.metrics = disk.rec.metrics
           /\ disk'.rec.files_processed = disk.rec.files_processed
           /\ disk'.state = disk.state ]_vars

\* The same file has been merged twice in a row into a record that already
\* held another file.
C3_Witness ==
    /\ ncalls = 3
    /\ LastFile = PrevFile
    /\ LastFile \in {"throughput_a.csv", "final_summary_r3.txt"}
    /\ Len(disk.rec.files_processed) = 2
    /\ disk.rec.files_processed[2] = LastFile

\* C4: metrics[k] is the fragment of the most recently merged file of
\* subtype k, and a merge changes no other subtype's entry.
C4_LastWriteWins ==
    [][ /\ DOMAIN disk'.rec.metrics = DOMAIN lastOf'
        /\ \A k \in DOMAIN disk'.rec.metrics :
              disk'.rec.metrics[k] = FragmentOf(lastOf'[k], k)
        /\ \A k \in DOMAIN disk.rec.metrics :
              k \notin DOMAIN BuildPayload(FileType(LastFile'),
                                           LastFile').payload
              => /\ k \in DOMAIN disk'.rec.metrics
                 /\ disk'.rec.metrics[k] = disk.rec.metrics[k] ]_vars

\* A second throughput file replaced the fragment of the first one while the
\* sample-sheet fragment stayed.
C4_Witness ==
    /\ LastFile = "throughput_b.csv"
    /\ disk.rec.files_processed
         = <<"throughput_a.csv", "sample_sheet_r1.csv", "throughput_b.csv">>
    /\ disk.rec.metrics["throughput"].total_reads = Num(30)
    /\ disk.rec.metrics["metadata_Sample_Sheet"].sample_id = Str("S1")

\* C5: files_processed never holds a duplicate, keeps its entries and their
\* order, and grows only by the file of the call, at the end, when new.
C5_AppendOnlySet ==
    [][ /\ ~ HasDuplicate(disk'.rec.files_processed)
        /\ IsPrefix(disk.rec.files_processed, disk'.rec.files_processed)
        /\ \/ disk'.rec.files_processed = disk.rec.files_processed
           \/ /\ disk'.rec.files_processed
                   = Append(disk.rec.files_processed, LastFile')
              /\ \A i \in DOMAIN disk.rec.files_processed :
                     disk.rec.files_processed[i] # LastFile' ]_vars

\* Three calls, one of them on a file already listed: two entries, in order.
C5_Witness ==
    /\ ncalls = 3
    /\ disk.rec.files_processed = <<"report_a.json", "final_summary_r2.txt">>
    /\ LastFile = "report_a.json"

\* C7 (as claimed): merging a final-summary fragment that carries neither
\* protocol_run_id nor run_id while run_id is "unknown" leaves run_id equal
\* to "unknown", and the persisted run_id is always a string.
C7_RunIdStaysUnknown ==
    [][ /\ (disk.rec.run_id = Unknown
            /\ LastFile' = "final_summary_noid.txt")
           => (disk'.rec.run_id = Unknown /\ disk'.rec.run_id.t = "str") ]_vars

\* Building the fragment of f fails: the file is missing or does not decode,
\* an exception is raised while building it, or its subtype gives none.
FragmentFails(f) ==
    LET b == BuildPayload(FileType(f), f)
    IN  \/ ~ NanoFile(f).present
        \/ ~ NanoFile(f).utf8
        \/ b.raised
        \/ b.payload = EmptyDict

\* C28 (as claimed): a call of one_single_file on a file whose fragment
\* cannot be built leaves the persisted record as it was: same run_id, same
\* metrics (a fragment of the same subtype merged earlier included) and same
\* files_processed.
C28_UnchangedOnFailure ==
    [][ FragmentFails(LastFile') => disk' = disk ]_vars

(***************************************************************************)
(* Two invocations of one_single_file, on different files, against the     *)
(* same output location (SpecConc).  Each invocation is the sequence       *)
(*   Load (lines 179-186), MergeStep (190-263),                            *)
(*   OpenForWrite (266, open(..., 'w') truncates), Dump (267 and close),   *)
(* and nothing orders the steps of one invocation against the other's.     *)
(*   procs.st[p]   position, file, in-memory General_record of p           *)
(*   procs.base    files_processed of the record found at the start        *)
(***************************************************************************)
ProcIds == {1, 2}

Other(p) == 3 - p

\* A record left at the output location by an earlier, completed call.
EarlierFiles == {"report_a.json"}

InitConc ==
    /\ \E f0 \in EarlierFiles \cup {""} :
          disk = IF f0 = "" THEN Absent ELSE Stored(Merge(InitRecord, f0).rec)
    /\ \E f1, f2 \in NanoNames :
          /\ f1 # f2
          /\ procs = [st |-> [p \in ProcIds |->
                                [pc |-> "start",
                                 file |-> IF p = 1 THEN f1 ELSE f2,
                                 rec |-> InitRecord,
                                 write |-> FALSE,
                                 otherAtLoad |-> "",
                                 overlaid |-> FALSE]],
                      base |-> LoadRecord(disk).files_processed]
    /\ ret = InitRecord
    /\ ncalls = 0
    /\ lastCall = <<"", "">>
    /\ ridSrc = "none"
    /\ lastOf = EmptyDict
    /\ cls = NoClassify
    /\ hdr = NoHeader
    /\ Idle

AggHistory == <<ret, ncalls, lastCall, ridSrc, lastOf>>

\* Lines 179-186: read the persisted record (an unparsable file, such as one
\* the other invocation has just truncated, gives the initial record).
Load(p) ==
    /\ procs.st[p].pc = "start"
    /\ procs' = [procs EXCEPT !.st[p].pc = "loaded",
                              !.st[p].rec = LoadRecord(disk),
                              !.st[p].otherAtLoad = procs.st[Other(p)].pc]
    /\ UNCHANGED <<disk, AggHistory, cls, hdr, Rest>>

\* Lines 190-263: build the payload and merge it into the in-memory record.
MergeStep(p) ==
    /\ procs.st[p].pc = "loaded"
    /\ LET m == Merge(procs.st[p].rec, procs.st[p].file)
       IN  procs' = [procs EXCEPT !.st[p].pc = IF m.write THEN "merged" ELSE "done",
                                  !.st[p].rec = m.rec,
                                  !.st[p].write = m.write]
    /\ UNCHANGED <<disk, AggHistory, cls, hdr, Rest>>

\* Line 266: open(General_output_path, 'w') empties the file.
OpenForWrite(p) ==
    /\ procs.st[p].pc = "merged"
    /\ disk' = Truncated
    /\ procs' = [procs EXCEPT !.st[p].pc = "writing"]
    /\ UNCHANGED <<AggHistory, cls, hdr, Rest>>

\* Line 267 and the close: the record is written from offset 0.  When the
\* other invocation wrote through its own handle in between, what it wrote
\* beyond the length of this record stays in the file, which then may not
\* parse.
Dump(p) ==
    /\ procs.st[p].pc = "writing"
    /\ \/ disk' = Stored(procs.st[p].rec)
       \/ procs.st[p].overlaid /\ disk' = Truncated
    /\ procs' = [procs EXCEPT !.st[p].pc = "done",
                              !.st[Other(p)].overlaid =
                                  (procs.st[Other(p)].pc = "writing")]
    /\ UNCHANGED <<AggHistory, cls, hdr, Rest>>

NextConc ==
    \E p \in ProcIds : Load(p) \/ MergeStep(p) \/ OpenForWrite(p) \/ Dump(p)

SpecConc == InitConc /\ [][NextConc]_vars

\* The subtype key of the payload built from file f.
KeyOf(f) == CHOOSE k \in DOMAIN BuildPayload(FileType(f), f).payload : TRUE

InRecord(f) ==
    \E i \in DOMAIN LoadRecord(disk).files_processed :
        LoadRecord(disk).files_processed[i] = f

\* The persisted record has neither the files_processed entry nor the
\* fragment of invocation p.
Lost(p) ==
    LET f == procs.st[p].file
    IN  /\ ~ InRecord(f)
        /\ \/ KeyOf(f) \notin DOMAIN LoadRecord(disk).metrics
           \/ LoadRecord(disk).metrics[KeyOf(f)] # FragmentOf(f, KeyOf(f))

\* The persisted record has the entry of invocation p, and its fragment
\* unless the other invocation merged the same subtype.
Kept(p) ==
    LET f == procs.st[p].file
        g == procs.st[Other(p)].file
    IN  /\ InRecord(f)
        /\ KeyOf(f) \in DOMAIN LoadRecord(disk).metrics
        /\ \/ LoadRecord(disk).metrics[KeyOf(f)] = FragmentOf(f, KeyOf(f))
           \/ KeyOf(g) = KeyOf(f)

BothMerged ==
    /\ procs # NoProcs
    /\ \A p \in ProcIds :
          /\ procs.st[p].pc = "done"
          /\ procs.st[p].write
          /\ \A i \in DOMAIN procs.base : procs.base[i] # procs.st[p].file

\* C6: when both invocations load before either rewrites, the persisted
\* record ends without the fragment and the files_processed entry of one of
\* them; when one invocation starts after the other has finished, the
\* record has the entries of both.
C6_LostUpdate ==
    BothMerged =>
        /\ (\A p \in ProcIds :
               procs.st[p].otherAtLoad \in {"start", "loaded", "merged"})
           => \E p \in ProcIds : Lost(p)
        /\ (\E p \in ProcIds : procs.st[p].otherAtLoad = "done")
           => \A p \in ProcIds : Kept(p)

\* Both invocations loaded the earlier record before either wrote; the
\* record on disk is the one written last, without the other's update.
C6_Witness ==
    /\ BothMerged
    /\ procs.st[1].otherAtLoad = "start"
    /\ procs.st[2].otherAtLoad = "loaded"
    /\ procs.st[1].file = "throughput_a.csv"
    /\ procs.st[2].file = "sample_sheet_r1.csv"
    /\ disk.state = "ok"
    /\ disk.rec.files_processed = <<"report_a.json", "sample_sheet_r1.csv">>
    /\ Lost(1)
    /\ Kept(2)

(***************************************************************************)
(* TypeClassifier: the validation predicates and detect_file_type.         *)
(* A predicate returns "True", "False", a subtype tag or "None"; "RAISE"   *)
(* stands for an exception leaving the predicate.                          *)
(***************************************************************************)
\* The number of lines is_beadstudio_file and is_illumina_samplesheet read.
PrefixLines == 20

\* The exception open()/read raise for file f under an encoding.  The text
\* layer decodes a chunk of 8192 bytes at a time and every file here is
\* shorter than a chunk, so the first readline() or next() raises
\* UnicodeDecodeError for an undecodable byte on any line of the file.
ReadError(f, encoding) ==
    IF ~ f.present THEN "OSError"
    ELSE IF (encoding = "utf-8" /\ ~ f.utf8) \/ (encoding = "locale" /\ ~ f.locale)
         THEN "UnicodeDecodeError"
    ELSE "none"

\* f.readline() for the i-th line: '' past the end of the file.
LineAt(f, i) == IF i <= Len(f.lines) THEN f.lines[i] ELSE ""

Bool(b) == IF b THEN "True" ELSE "False"

\* Extractor_BeadStudio.is_beadstudio_file: next(f) twenty times, then the
\* keyword test; any exception (StopIteration included) gives False.
is_beadstudio_file(f) ==
    IF ReadError(f, "locale") # "none" THEN "False"
    ELSE IF Len(f.lines) < PrefixLines THEN "False"
    ELSE Bool(\E i \in 1..PrefixLines : LowerHas(f.lines[i], "beadstudio"))

\* Extractor_Thermal_Report.is_thermal_report
is_thermal_report(f) ==
    IF ReadError(f, "locale") # "none" THEN "False"
    ELSE Bool(/\ LineAt(f, 1) \in {"Side,A", "Side,BeadStudio"}
              /\ LineAt(f, 3) = "Time,Current Cycle")

\* Extractor_FMGeneration.is_fm_generation_report
is_fm_generation_report(f) ==
    IF ReadError(f, "locale") # "none" THEN "False"
    ELSE Bool(LineAt(f, 1) \in {"Instrument Name,A00618",
                                "Instrument Name,BeadStudio"})

\* The lines of content.split("[header]", 1)[1].split("[", 1)[0]: the lines
\* after the first [header] line up to the next line with a '['.
RECURSIVE HeaderBlock(_, _, _)
HeaderBlock(f, i, last) ==
    IF i > last \/ LowerHas(LineAt(f, i), "[") THEN {}
    ELSE {LineAt(f, i)} \cup HeaderBlock(f, i + 1, last)

\* Mutant of is_illumina_samplesheet: except OSError only.
is_illumina_samplesheet_OSErrorOnly(f) ==
    IF ReadError(f, "utf-8") = "OSError" THEN "False"
    ELSE IF ReadError(f, "utf-8") # "none" THEN "RAISE"
    ELSE LET hs == {i \in 1..PrefixLines : LowerHas(LineAt(f, i), "[header]")}
         IN  IF hs = {} THEN "False"
             ELSE LET h == CHOOSE i \in hs : \A j \in hs : i <= j
                      block == HeaderBlock(f, h + 1, PrefixLines)
                  IN  Bool(/\ \E l \in block : LowerHas(l, "workflow,generatefastq")
                           /\ \E l \in block : LowerHas(l, "chemistry,amplicon"))

\* Extractor_IlluminaSampleSheet.is_illumina_samplesheet: catches OSError
\* and UnicodeDecodeError.
is_illumina_samplesheet(f) ==
    IF ReadError(f, "utf-8") \in {"OSError", "UnicodeDecodeError"} THEN "False"
    ELSE IF ReadError(f, "utf-8") # "none" THEN "RAISE"
    ELSE LET hs == {i \in 1..PrefixLines : LowerHas(LineAt(f, i), "[header]")}
         IN  IF hs = {} THEN "False"
             ELSE LET h == CHOOSE i \in hs : \A j \in hs : i <= j
                      block == HeaderBlock(f, h + 1, PrefixLines)
                  IN  Bool(/\ \E l \in block : LowerHas(l, "workflow,generatefastq")
                           /\ \E l \in block : LowerHas(l, "chemistry,amplicon"))

\* Extractor_FMAutoTilt.is_fm_autotilt_report
is_fm_autotilt_report(f) ==
    IF ReadError(f, "locale") # "none" THEN "False"
    ELSE Bool(LineAt(f, 1) = "[FTM Through-Focus Stack]")

\* Mutant of EXTRACTORS: the Illumina entry registered first.
EXTRACTORS_IlluminaFirst ==
    << "IlluminaSampleSheet", "BeadStudio", "Thermal_Report", "FMGeneration",
       "FMAutoTilt", "Nanopore" >>

\* Main_Auto_Processor.EXTRACTORS: the registry, by module.
EXTRACTORS ==
    << "BeadStudio", "Thermal_Report", "FMGeneration", "IlluminaSampleSheet",
       "FMAutoTilt", "Nanopore" >>

\* validator(file_path) for the validator registered with module m.
Validate(m, f) ==
    CASE m = "BeadStudio" -> is_beadstudio_file(f)
      [] m = "Thermal_Report" -> is_thermal_report(f)
      [] m = "FMGeneration" -> is_fm_generation_report(f)
      [] m = "IlluminaSampleSheet" -> is_illumina_samplesheet(f)
      [] m = "FMAutoTilt" -> is_fm_autotilt_report(f)
      [] m = "Nanopore" -> is_nanopore_file(f)

\* Python truthiness of a predicate's result.
Matches(r) == r \notin {"False", "None", "RAISE"}

\* The files given to detect_file_type: a first line, optional filler lines,
\* a block of lines, optional filler lines.
Pad == 20

Filler(k) == [i \in 1..k |-> "x,y"]

FirstLines ==
    { "x,y", "[Header]", "Side,A", "Side,BeadStudio", "Instrument Name,A00618",
      "Instrument Name,BeadStudio", "[FTM Through-Focus Stack]",
      "protocol_run_id,sample_id" }

Blocks ==
    { <<>>,
      <<"Investigator Name,BeadStudio">>,
      <<"x,y", "Time,Current Cycle">>,
      <<"x,y", "Time,Current Cycle", "Investigator Name,BeadStudio">>,
      <<"[Header]", "Workflow,GenerateFASTQ", "Chemistry,Amplicon">>,
      <<"Workflow,GenerateFASTQ", "Chemistry,Amplicon", "[Data]">>,
      <<"Workflow,GenerateFASTQ", "[Data]", "Chemistry,Amplicon">>,
      <<"Workflow,GenerateFASTQ", "Chemistry,Amplicon",
        "Investigator Name,BeadStudio">> }

ClsNames == {"plate.csv", "report_a.md", "final_summary_r2.txt"}

ClsFiles ==
    { [name |-> n, present |-> pr, utf8 |-> u, locale |-> l,
       lines |-> <<first>> \o Filler(before) \o block \o Filler(after)] :
         n \in ClsNames, pr \in BOOLEAN, u \in BOOLEAN, l \in BOOLEAN,
         first \in FirstLines, block \in Blocks,
         before \in {0, Pad}, after \in {0, Pad} }

InitClassify ==
    /\ \E f \in ClsFiles :
          /\ f.present \/ (f.utf8 /\ f.locale)
          /\ cls = [file |-> f, idx |-> 1, evaluated |-> <<>>, result |-> "pending"]
    /\ disk = Absent
    /\ ret = InitRecord
    /\ ncalls = 0
    /\ lastCall = <<"", "">>
    /\ ridSrc = "none"
    /\ lastOf = EmptyDict
    /\ procs = NoProcs
    /\ hdr = NoHeader
    /\ Idle

\* One iteration of the loop of detect_file_type: call the validator at
\* position idx; return its module when the result is truthy.
DetectStep ==
    /\ cls.result = "pending"
    /\ cls.idx <= Len(EXTRACTORS)
    /\ LET m == EXTRACTORS[cls.idx]
           r == Validate(m, cls.file)
       IN  cls' = [cls EXCEPT !.evaluated = Append(@, m),
                              !.idx = @ + 1,
                              !.result = IF r = "RAISE" THEN "raised"
                                         ELSE IF Matches(r) THEN m
                                         ELSE "pending"]
    /\ UNCHANGED <<disk, AggHistory, procs, hdr, Rest>>

\* The loop ended without a match: return None.
DetectNone ==
    /\ cls.result = "pending"
    /\ cls.idx > Len(EXTRACTORS)
    /\ cls' = [cls EXCEPT !.result = "None"]
    /\ UNCHANGED <<disk, AggHistory, procs, hdr, Rest>>

NextClassify == DetectStep \/ DetectNone

SpecClassify == InitClassify /\ [][NextClassify]_vars

(***************************************************************************)
(* Claims on the TypeClassifier (SpecClassify).                             *)
(***************************************************************************)
RegistryOrder ==
    << "BeadStudio", "Thermal_Report", "FMGeneration", "IlluminaSampleSheet",
       "FMAutoTilt", "Nanopore" >>

PosOf(m) == CHOOSE i \in DOMAIN RegistryOrder : RegistryOrder[i] = m

Returned == cls.result \notin {"pending", "raised"}

\* C8: the predicates are evaluated in the order BeadStudio, Thermal,
\* FM-Generation, Illumina, FM-AutoTilt, Nanopore; the module returned is the
\* first whose predicate is truthy, no later predicate is evaluated, and the
\* result is None exactly when no predicate matches.
C8_FirstMatchWins ==
    /\ IsPrefix(cls.evaluated, RegistryOrder)
    /\ (Returned /\ cls.result # "None")
       => /\ Matches(Validate(cls.result, cls.file))
          /\ \A i \in 1..(PosOf(cls.result) - 1) :
                ~ Matches(Validate(RegistryOrder[i], cls.file))
          /\ Len(cls.evaluated) = PosOf(cls.result)
    /\ cls.result = "None"
       => /\ \A i \in DOMAIN RegistryOrder :
                ~ Matches(Validate(RegistryOrder[i], cls.file))
          /\ cls.evaluated = RegistryOrder

\* A file that satisfies both the BeadStudio and the Illumina predicate was
\* classified as BeadStudio after one evaluation.
C8_Witness ==
    /\ cls.result = "BeadStudio"
    /\ cls.evaluated = <<"BeadStudio">>
    /\ is_beadstudio_file(cls.file) = "True"
    /\ is_illumina_samplesheet(cls.file) = "True"

RECURSIVE DetectFrom(_, _)
\* The loop of detect_file_type from position idx of the registry.
DetectFrom(f, idx) ==
    IF idx > Len(EXTRACTORS) THEN "None"
    ELSE LET r == Validate(EXTRACTORS[idx], f)
         IN  IF r = "RAISE" THEN "raised"
             ELSE IF Matches(r) THEN EXTRACTORS[idx]
             ELSE DetectFrom(f, idx + 1)

\* Main_Auto_Processor.detect_file_type(file_path)
detect_file_type(f) == DetectFrom(f, 1)

\* The first PrefixLines lines of a file.
Prefix(f) ==
    SubSeq(f.lines, 1, IF Len(f.lines) < PrefixLines THEN Len(f.lines) ELSE PrefixLines)

\* What can follow line 20: nothing, or a line with or without a keyword.
Tails == { <<>>, <<"x,y">>, <<"Investigator Name,BeadStudio">>, <<"[Header]">> }

\* The files with the name and the first 20 lines of a decodable file f that
\* has 20 lines or more: any lines after line 20, decodable or not.
SamePrefix(f) ==
    { [name |-> f.name, present |-> f.present, utf8 |-> u, locale |-> l,
       lines |-> Prefix(f) \o tail] :
         u \in BOOLEAN, l \in BOOLEAN, tail \in {t \in Tails : t # <<>>} }

\* C24 (as claimed): two files with the same name and the same first 20
\* lines are classified alike, whatever follows line 20.
C24_BoundedPrefix ==
    (/\ Returned
     /\ cls.file.present /\ cls.file.utf8 /\ cls.file.locale
     /\ Len(cls.file.lines) >= PrefixLines)
    => \A g \in SamePrefix(cls.file) : detect_file_type(g) = cls.result

\* C27 (as claimed): the BeadStudio predicate, the first of the registry,
\* accepts a file exactly when the file is readable and 'beadstudio' occurs
\* in one of its first 20 lines, also when the file has fewer than 20 lines.
C27_KeywordInTop ==
    Len(cls.evaluated) >= 1
    => ((cls.evaluated = <<"BeadStudio">> /\ cls.result = "BeadStudio")
        <=> (/\ ReadError(cls.file, "locale") = "none"
             /\ \E i \in DOMAIN Prefix(cls.file) :
                   LowerHas(cls.file.lines[i], "beadstudio")))

\* The read made by the predicate of module m on file f fails.
ReadFails(m, f) ==
    CASE m = "IlluminaSampleSheet" -> ReadError(f, "utf-8") # "none"
      [] m = "Nanopore" ->
           ~ f.present \/ (EndsWith(f, ".csv") /\ ReadError(f, "utf-8") # "none")
      [] m = "BeadStudio" ->
           ReadError(f, "locale") # "none" \/ Len(f.lines) < PrefixLines
      [] OTHER -> ReadError(f, "locale") # "none"

\* C9: detect_file_type never raises; a predicate whose read fails returns
\* False, and the predicates after it are still evaluated.
C9_NeverRaises ==
    /\ cls.result # "raised"
    /\ \A m \in {RegistryOrder[i] : i \in DOMAIN RegistryOrder} :
          ReadFails(m, cls.file) => Validate(m, cls.file) = "False"
    /\ Returned
       => \A i \in 1..(Len(RegistryOrder) - 1) :
             (i <= Len(cls.evaluated) /\ ReadFails(RegistryOrder[i], cls.file))
             => Len(cls.evaluated) > i

\* A file that does not decode as UTF-8: the Illumina predicate's read
\* failed, and the Nanopore predicate after it classified the file.
C9_Witness ==
    /\ cls.result = "Nanopore"
    /\ cls.evaluated = RegistryOrder
    /\ cls.file.present
    /\ ~ cls.file.utf8
    /\ ReadFails("IlluminaSampleSheet", cls.file)
    /\ Len(cls.file.lines) < PrefixLines

(***************************************************************************)
(* Bracket-sectioned files: get_csv_section and the extractors built on it *)
(* (Extractor_BeadStudio.py, Src/Extractor_IlluminaSampleSheet.py).        *)
(***************************************************************************)
\* line.split(','): the cells of a line of a sectioned file.
Cells(line) ==
    CASE line = "Project Name,Foo" -> <<"Project Name", "Foo">>
      [] line = "Experiment Name,Bar" -> <<"Experiment Name", "Bar">>
      [] line = "Experiment Name," -> <<"Experiment Name", "">>
      [] line = "Workflow,GenerateFASTQ" -> <<"Workflow", "GenerateFASTQ">>
      [] line = "Chemistry,Amplicon" -> <<"Chemistry", "Amplicon">>
      [] line = "Investigator Name,BeadStudio" ->
           <<"Investigator Name", "BeadStudio">>
      [] line = "A,HumanHap550" -> <<"A", "HumanHap550">>
      [] line = "Sample_ID,Sample_Name" -> <<"Sample_ID", "Sample_Name">>
      [] line = "S1,BeadStudio" -> <<"S1", "BeadStudio">>
      [] line = "S2,beta" -> <<"S2", "beta">>
      [] line = "x,y" -> <<"x", "y">>
      [] line = "Instrument Name,A00618" -> <<"Instrument Name", "A00618">>
      [] line = "Tilt,1" -> <<"Tilt", "1">>
      [] line = "Tilt ,2" -> <<"Tilt ", "2">>
      [] line = "Best Focus,12" -> <<"Best Focus", "12">>
      [] line = "Cycle,Z,Score" -> <<"Cycle", "Z", "Score">>
      [] line = "1,200,0.9" -> <<"1", "200", "0.9">>
      [] line = "2,210,0.8" -> <<"2", "210", "0.8">>
      [] line = "Sample.ID,ng.ul,260.280,260.230" ->
           <<"Sample.ID", "ng.ul", "260.280", "260.230">>
      [] line = "S1,50,1.8,2.0" -> <<"S1", "50", "1.8", "2.0">>
      [] line = "Sample.ID,ng.ul" -> <<"Sample.ID", "ng.ul">>
      [] line = "S1,50" -> <<"S1", "50">>
      [] line = "Side,A" -> <<"Side", "A">>
      [] line = "Time,Current Cycle" -> <<"Time", "Current Cycle">>
      [] line = "Side,BeadStudio" -> <<"Side", "BeadStudio">>
      [] line = "Instrument Name,BeadStudio" -> <<"Instrument Name", "BeadStudio">>
      [] line = "protocol_run_id,sample_id" -> <<"protocol_run_id", "sample_id">>
      [] line = "Protocol_Run_ID,sample_id" -> <<"Protocol_Run_ID", "sample_id">>
      [] line = "Experiment Time (minutes),Reads" ->
           <<"Experiment Time (minutes)", "Reads">>
      [] line = "channel,mux_scan_assessment" -> <<"channel", "mux_scan_assessment">>
      [] line = "current_target_temperature,num_reads" ->
           <<"current_target_temperature", "num_reads">>
      [] line = "Channel State,Experiment Time (minutes),State Time (samples)" ->
           <<"Channel State", "Experiment Time (minutes)", "State Time (samples)">>
      [] OTHER -> <<line>>

\* line.split(';') for the lines in use.
CellsSemi(line) ==
    CASE line = "Sample_ID;Notes" -> <<"Sample_ID", "Notes">>
      [] line = "S1;ok" -> <<"S1", "ok">>
      [] OTHER -> <<line>>

\* key.lower().replace(' ', '_')
NormalizeKey(key) ==
    CASE key = "Project Name" -> "project_name"
      [] key = "Experiment Name" -> "experiment_name"
      [] key = "Investigator Name" -> "investigator_name"
      [] key = "Workflow" -> "workflow"
      [] key = "Chemistry" -> "chemistry"
      [] key = "Sample_ID" -> "sample_id"
      [] key = "S1" -> "s1"
      [] key = "S2" -> "s2"
      [] key = "A" -> "a"
      [] key = "Instrument Name" -> "instrument_name"
      [] key = "Tilt" -> "tilt"
      [] key = "Cycle" -> "cycle"
      [] OTHER -> key

\* The value pandas gives a cell: NaN for an empty one.
CellValue(c) == IF c = "" THEN NaN ELSE Str(c)

\* A row of cells against n columns: short rows are filled with NaN.
RowValues(cells, n) ==
    [j \in 1..n |-> IF j <= Len(cells) THEN CellValue(cells[j]) ELSE NaN]

\* line.split(sep)
Split(sep, line) == IF sep = ";" THEN CellsSemi(line) ELSE Cells(line)

\* pd.read_csv(io.StringIO(content), sep=sep):
\* the first line is the header line and gives the column names, every
\* following line is a data row.  No line at all raises EmptyDataError.  A
\* first data row with more cells than the header makes its leading cells
\* the index of the frame; a later row with more cells than that raises
\* ParserError, or is skipped under on_bad_lines='skip'.
ReadCsvWith(sep, content, skipBad) ==
    IF content = <<>> THEN [err |-> "EmptyDataError", columns |-> <<>>, rows |-> <<>>]
    ELSE LET columns == Split(sep, content[1])
             n == Len(columns)
             body == SubSeq(content, 2, Len(content))
             width == IF body # <<>> /\ Len(Split(sep, body[1])) > n
                      THEN Len(Split(sep, body[1])) ELSE n
             leading == width - n
             fits(l) == Len(Split(sep, l)) <= width
         IN  IF ~ skipBad /\ \E i \in DOMAIN body : ~ fits(body[i])
             THEN [err |-> "ParserError", columns |-> <<>>, rows |-> <<>>]
             ELSE LET kept == SelectSeq(body, fits)
                  IN  [err |-> "",
                       columns |-> columns,
                       rows |-> [i \in DOMAIN kept |->
                                   [j \in 1..n |->
                                      RowValues(Split(sep, kept[i]), width)[leading + j]]]]

\* pd.read_csv(io.StringIO(content)), comma-separated.
ReadCsv(content, skipBad) == ReadCsvWith(",", content, skipBad)

\* line.startswith(section_name) for a section marker.
IsMarker(line, section_name) == line = section_name

\* The index of the first line that starts with the marker, 0 for none.
StartIdx(lines, section_name) ==
    LET hits == {i \in DOMAIN lines : IsMarker(lines[i], section_name)}
    IN  IF hits = {} THEN 0 ELSE CHOOSE i \in hits : \A j \in hits : i <= j

\* The index of the first line after start that starts with '[', or
\* len(lines) + 1.
EndIdx(lines, start) ==
    LET hits == {i \in DOMAIN lines : i > start /\ LowerHas(lines[i], "[")}
    IN  IF hits = {} THEN Len(lines) + 1
        ELSE CHOOSE i \in hits : \A j \in hits : i <= j

\* lines[start_idx + 1 : end_idx]
SectionLines(lines, section_name) ==
    LET start == StartIdx(lines, section_name)
    IN  SubSeq(lines, start + 1, EndIdx(lines, start) - 1)

\* Extractor_BeadStudio.get_csv_section: raises ValueError without the
\* marker, else read_csv of the section's lines.
Bead_get_csv_section(f, section_name) ==
    IF ReadError(f, "locale") # "none"
    THEN [err |-> ReadError(f, "locale"), columns |-> <<>>, rows |-> <<>>]
    ELSE IF StartIdx(f.lines, section_name) = 0
    THEN [err |-> "ValueError", columns |-> <<>>, rows |-> <<>>]
    ELSE ReadCsv(SectionLines(f.lines, section_name), FALSE)

\* df.dropna(axis=1, how='all'): the columns with at least one non-NaN value.
DropEmptyColumns(df) ==
    LET keep == {j \in DOMAIN df.columns :
                    \E i \in DOMAIN df.rows : df.rows[i][j] # NaN}
        idx(j) == Cardinality({k \in keep : k <= j})
        pos == [k \in 1..Cardinality(keep) |->
                   CHOOSE j \in keep : idx(j) = k]
    IN  [err |-> "",
         columns |-> [k \in DOMAIN pos |-> df.columns[pos[k]]],
         rows |-> [i \in DOMAIN df.rows |->
                      [k \in DOMAIN pos |-> df.rows[i][pos[k]]]]]

EmptyFrame == [err |-> "", columns |-> <<>>, rows |-> <<>>]

\* Extractor_IlluminaSampleSheet.get_csv_section: an empty DataFrame without
\* the marker, else read_csv (bad lines skipped) without its empty columns.
Illumina_get_csv_section(f, section_name) ==
    IF ReadError(f, "utf-8") # "none"
    THEN [err |-> ReadError(f, "utf-8"), columns |-> <<>>, rows |-> <<>>]
    ELSE IF StartIdx(f.lines, section_name) = 0 THEN EmptyFrame
    ELSE LET df == ReadCsv(SectionLines(f.lines, section_name), TRUE)
         IN  IF df.err # "" THEN df ELSE DropEmptyColumns(df)

\* df.empty
IsEmpty(df) == df.columns = <<>> \/ df.rows = <<>>

\* The loop of extract_metadata over header_df.iterrows(): rows in order,
\* later keys overwrite, a row with a NaN key or value is passed over; a
\* frame with a single column raises IndexError at row.iloc[1], which the
\* caller's except swallows with what was collected so far.
RECURSIVE MetadataRows(_, _, _)
MetadataRows(rows, ncols, metadata) ==
    IF rows = <<>> \/ ncols < 2 THEN metadata
    ELSE LET key == Head(rows)[1]
             value == Head(rows)[2]
         IN  MetadataRows(Tail(rows), ncols,
                 IF key # NaN /\ value # NaN
                 THEN Update(metadata, One(NormalizeKey(key.s), value))
                 ELSE metadata)

\* extract_metadata(file_Input_path), on the module's own get_csv_section:
\* any exception is printed and the metadata collected so far returned.
ExtractMetadata(df) ==
    IF df.err # "" THEN EmptyDict
    ELSE MetadataRows(df.rows, Len(df.columns), EmptyDict)

Bead_extract_metadata(f) == ExtractMetadata(Bead_get_csv_section(f, "[Header]"))

Illumina_extract_metadata(f) ==
    ExtractMetadata(Illumina_get_csv_section(f, "[Header]"))

\* Extractor_BeadStudio.extract_manifest_info: the second field of the line
\* after the first [Manifests] line, else 'N/A'.
extract_manifest_info(f) ==
    LET i == StartIdx(f.lines, "[Manifests]")
    IN  IF ReadError(f, "locale") # "none" \/ i = 0 \/ i + 1 > Len(f.lines)
        THEN Str("N/A")
        ELSE IF Len(Cells(f.lines[i + 1])) >= 2
             THEN Str(Cells(f.lines[i + 1])[2])
             ELSE Str("N/A")

\* Extractor_BeadStudio.count_samples: len of the [Data] frame, 0 on error.
count_samples(f) ==
    LET df == Bead_get_csv_section(f, "[Data]")
    IN  IF df.err # "" THEN 0 ELSE Len(df.rows)

\* re.search(r"(ORID\d{4})", text): the match, or "" for none.
extract_orid_from_filename(text) ==
    IF text = "ORID0042_sheet.csv" THEN "ORID0042" ELSE ""

\* A result of one_single_file: the exception raised, or the file_info
\* record written as JSON and returned.
Failed(error) ==
    [error |-> error, file_type |-> "", file_name |-> "", metadata |-> EmptyDict,
     manifest_id |-> None, number_of_samples |-> 0, samples |-> <<>>]

\* Extractor_BeadStudio.one_single_file
Bead_one_single_file(f) ==
    IF is_beadstudio_file(f) # "True" THEN Failed("ValueError")
    ELSE [error |-> "",
          file_type |-> "",
          file_name |-> f.name,
          metadata |-> Bead_extract_metadata(f),
          manifest_id |-> extract_manifest_info(f),
          number_of_samples |-> count_samples(f),
          samples |-> <<>>]

\* The [Header] loop of Extractor_IlluminaSampleSheet.one_single_file: every
\* row with a key is stored, whatever its value.
RECURSIVE IlluminaHeaderRows(_, _)
IlluminaHeaderRows(rows, metadata) ==
    IF rows = <<>> THEN metadata
    ELSE LET key == Head(rows)[1]
         IN  IlluminaHeaderRows(Tail(rows),
                 IF key # NaN
                 THEN Update(metadata, One(NormalizeKey(key.s), Head(rows)[2]))
                 ELSE metadata)

\* data_df.to_dict(orient='records')
ToRecords(df) ==
    [i \in DOMAIN df.rows |->
        [c \in {df.columns[j] : j \in DOMAIN df.columns} |->
            df.rows[i][CHOOSE j \in DOMAIN df.columns : df.columns[j] = c]]]

\* Extractor_IlluminaSampleSheet.one_single_file
Illumina_one_single_file(f) ==
    IF is_illumina_samplesheet(f) # "True" THEN Failed("ValueError")
    ELSE LET header_df == Illumina_get_csv_section(f, "[Header]")
             data_df == Illumina_get_csv_section(f, "[Data]")
             metadata == IF IsEmpty(header_df) THEN EmptyDict
                         ELSE IlluminaHeaderRows(header_df.rows, EmptyDict)
             named == Get(metadata, "experiment_name", Str(""))
             orid == IF extract_orid_from_filename(f.name) # ""
                     THEN extract_orid_from_filename(f.name)
                     ELSE extract_orid_from_filename(named.s)
             sample_details == IF IsEmpty(data_df) THEN <<>> ELSE ToRecords(data_df)
         IN  IF header_df.err # "" THEN Failed(header_df.err)
             ELSE IF ~ IsEmpty(header_df) /\ Len(header_df.columns) < 2
                  THEN Failed("IndexError")
             ELSE IF data_df.err # "" THEN Failed(data_df.err)
             ELSE [error |-> "",
                   file_type |-> "Illumina Sample Sheet",
                   file_name |-> f.name,
                   metadata |-> IF orid # ""
                                THEN Update(metadata, One("proposal_id", Str(orid)))
                                ELSE metadata,
                   manifest_id |-> None,
                   number_of_samples |-> Len(sample_details),
                   samples |-> sample_details]

(***************************************************************************)
(* Extraction from one sectioned file (SpecHeader).                        *)
(*   hdr.file   the input file                                             *)
(*   hdr.step   "start", then the operation that ran                       *)
(*   hdr.out    what the operation returned or raised                      *)
(***************************************************************************)
HeaderPrefixes ==
    { <<>>, <<"Workflow,GenerateFASTQ", "Chemistry,Amplicon">>,
      <<"Investigator Name,BeadStudio">> }

HeaderFields == {"Project Name,Foo", "Experiment Name,Bar", "Experiment Name,"}

\* At most MaxFields field rows after the prefix rows of a [Header] section.
MaxFields == 2

FieldRows == UNION {[1..k -> HeaderFields] : k \in 0..MaxFields}

ManifestSections == { <<>>, <<"[Manifests]", "A,HumanHap550">> }

DataSections ==
    { <<>>, <<"[Data]">>,
      <<"[Data]", "Sample_ID,Sample_Name", "S1,BeadStudio", "S2,beta">> }

HdrNames == {"plate.csv", "ORID0042_sheet.csv"}

HdrFiles ==
    { [name |-> n, present |-> TRUE, utf8 |-> TRUE, locale |-> TRUE,
       lines |-> (IF marked THEN <<"[Header]">> ELSE <<>>)
                 \o pre \o fields \o manifest \o data \o Filler(after)] :
         n \in HdrNames, marked \in BOOLEAN, pre \in HeaderPrefixes,
         fields \in FieldRows, manifest \in ManifestSections,
         data \in DataSections, after \in {0, Pad} }

InitHeader ==
    /\ \E f \in HdrFiles : hdr = [file |-> f, step |-> "start", out |-> Failed("")]
    /\ disk = Absent
    /\ ret = InitRecord
    /\ ncalls = 0
    /\ lastCall = <<"", "">>
    /\ ridSrc = "none"
    /\ lastOf = EmptyDict
    /\ procs = NoProcs
    /\ cls = NoClassify
    /\ Idle

\* Extractor_BeadStudio.one_single_file on the file.
BeadStudioOneSingleFile ==
    /\ hdr.step = "start"
    /\ hdr' = [hdr EXCEPT !.step = "BeadStudio.one_single_file",
                          !.out = Bead_one_single_file(hdr.file)]
    /\ UNCHANGED <<disk, AggHistory, procs, cls, Rest>>

\* Extractor_IlluminaSampleSheet.one_single_file on the file.
IlluminaOneSingleFile ==
    /\ hdr.step = "start"
    /\ hdr' = [hdr EXCEPT !.step = "Illumina.one_single_file",
                          !.out = Illumina_one_single_file(hdr.file)]
    /\ UNCHANGED <<disk, AggHistory, procs, cls, Rest>>

\* Extractor_IlluminaSampleSheet.extract_metadata on the file.
IlluminaExtractMetadata ==
    /\ hdr.step = "start"
    /\ hdr' = [hdr EXCEPT !.step = "Illumina.extract_metadata",
                          !.out = [Failed("") EXCEPT
                                     !.metadata = Illumina_extract_metadata(hdr.file)]]
    /\ UNCHANGED <<disk, AggHistory, procs, cls, Rest>>

\* The marker names get_csv_section is called with.
Markers == {"[Header]", "[Data]", "[Manifests]"}

\* Extractor_BeadStudio.get_csv_section on the file, for one marker.
BeadStudioGetCsvSection ==
    /\ hdr.step = "start"
    /\ \E section_name \in Markers :
          hdr' = [hdr EXCEPT !.step = "BeadStudio.get_csv_section",
                             !.out = [section_name |-> section_name,
                                      df |-> Bead_get_csv_section(hdr.file, section_name)]]
    /\ UNCHANGED <<disk, AggHistory, procs, cls, Rest>>

\* Extractor_IlluminaSampleSheet.get_csv_section on the file, for one marker.
IlluminaGetCsvSection ==
    /\ hdr.step = "start"
    /\ \E section_name \in Markers :
          hdr' = [hdr EXCEPT !.step = "Illumina.get_csv_section",
                             !.out = [section_name |-> section_name,
                                      df |-> Illumina_get_csv_section(hdr.file, section_name)]]
    /\ UNCHANGED <<disk, AggHistory, procs, cls, Rest>>

NextHeader ==
    \/ BeadStudioOneSingleFile
    \/ IlluminaOneSingleFile
    \/ IlluminaExtractMetadata
    \/ BeadStudioGetCsvSection
    \/ IlluminaGetCsvSection

SpecHeader == InitHeader /\ [][NextHeader]_vars

\* The lines of the [Header] section of the input file.
HeaderSection == SectionLines(hdr.file.lines, "[Header]")

Extracted ==
    /\ hdr.step \in {"BeadStudio.one_single_file", "Illumina.one_single_file",
                     "Illumina.extract_metadata"}
    /\ hdr.out.error = ""

\* C10 (as claimed): when the [Header] section is exactly the rows
\* 'Project Name,Foo' and 'Experiment Name,Bar', the extracted metadata has
\* project_name = "Foo" and experiment_name = "Bar".
C10_HeaderRowsDecoded ==
    (/\ Extracted
     /\ StartIdx(hdr.file.lines, "[Header]") # 0
     /\ HeaderSection = <<"Project Name,Foo", "Experiment Name,Bar">>)
    => /\ Get(hdr.out.metadata, "project_name", None) = Str("Foo")
       /\ Get(hdr.out.metadata, "experiment_name", None) = Str("Bar")

\* The file passed the validation of the extractor whose one_single_file ran.
Validated ==
    \/ hdr.step = "BeadStudio.one_single_file" /\ is_beadstudio_file(hdr.file) = "True"
    \/ hdr.step = "Illumina.one_single_file" /\ is_illumina_samplesheet(hdr.file) = "True"

\* The section is absent from the file, or the extractor's get_csv_section
\* cannot decode it.
AbsentOrUndecodable(section_name) ==
    \/ StartIdx(hdr.file.lines, section_name) = 0
    \/ /\ hdr.step = "BeadStudio.one_single_file"
       /\ Bead_get_csv_section(hdr.file, section_name).err # ""
    \/ /\ hdr.step = "Illumina.one_single_file"
       /\ Illumina_get_csv_section(hdr.file, section_name).err # ""

\* C17 (as claimed): when a file passes validation and its [Header] or its
\* [Data] section is absent or undecodable, one_single_file fails and no
\* record is produced.
C17_RequiredSectionHard ==
    (Validated /\ (AbsentOrUndecodable("[Header]") \/ AbsentOrUndecodable("[Data]")))
    => hdr.out.error # ""

\* The lines strictly after the first line that starts with the marker and
\* strictly before the next line that starts with '['.
Between(lines, section_name) ==
    LET start == CHOOSE i \in DOMAIN lines :
                   /\ IsMarker(lines[i], section_name)
                   /\ \A j \in 1..(i - 1) : ~ IsMarker(lines[j], section_name)
        inside == {i \in DOMAIN lines :
                     i > start /\ \A j \in (start + 1)..i : ~ LowerHas(lines[j], "[")}
    IN  [k \in 1..Cardinality(inside) |-> lines[start + k]]

\* C18 (as claimed): get_csv_section decodes the lines strictly between the
\* first line that starts with the marker and the next line that starts
\* with '[' (or the end of the file), and fails with a section-not-found error
\* when no line starts with the marker, in both extractors.
C18_LocateSection ==
    hdr.step \in {"BeadStudio.get_csv_section", "Illumina.get_csv_section"}
    => IF \E i \in DOMAIN hdr.file.lines : IsMarker(hdr.file.lines[i], hdr.out.section_name)
       THEN hdr.out.df =
              IF hdr.step = "BeadStudio.get_csv_section"
              THEN ReadCsv(Between(hdr.file.lines, hdr.out.section_name), FALSE)
              ELSE LET df == ReadCsv(Between(hdr.file.lines, hdr.out.section_name), TRUE)
                   IN  IF df.err # "" THEN df ELSE DropEmptyColumns(df)
       ELSE hdr.out.df.err = "ValueError"

(***************************************************************************)
(* Sequencing-summary aggregation (SpecReads): the reads table is drawn     *)
(* from bounded sets, extract_metadata_from_Sequencing_txt is applied to   *)
(* it, and again after two of its rows change places.                      *)
(***************************************************************************)
MaxRows == 3

Old == <<disk, AggHistory, procs, cls, hdr>>

IdleOld ==
    /\ InitAgg
    /\ procs = NoProcs
    /\ cls = NoClassify
    /\ hdr = NoHeader

\* Rows that differ in the filtering flag and in the quality score, a row
\* cut short after its identifiers, rows that differ in their identifiers
\* and a row cut short before the filtering flag.
ReadRows ==
    { SeqRow(Str(flag), Str("S1"), Str("E1"), Str("R1"), Str("R10"), Str("10")) :
        flag \in {"TRUE", "true", "FALSE"} }
    \cup { SeqRow(Str("TRUE"), Str("S1"), Str("E1"), Str("R1"), Str("R10"), q) :
             q \in {Str("11"), Str("14"), Str("abc"), Str("nan"), None} }
    \cup { SeqRow(Str("TRUE"), Str(id[1]), Str("E2"), Str(id[2]), Str(id[2]), Str("12")) :
             id \in {<<"S2", "R9">>, <<"s1", "R10">>, <<"", "R9">>, <<"S2", "">>} }
    \cup { SeqRow(None, Str("S1"), None, None, None, None) }

RECURSIVE SeqsUpTo(_, _)
\* The sequences of at most n elements of S.
SeqsUpTo(S, n) ==
    IF n = 0 THEN {<<>>}
    ELSE LET shorter == SeqsUpTo(S, n - 1)
         IN  shorter \cup { Append(q, x) : q \in shorter, x \in S }

ReadTables ==
    { [readable |-> TRUE, columns |-> c, rows |-> rs] :
        c \in {SeqColumns, SeqColumns \ {"passes_filtering", "mean_qscore_template"}},
        rs \in SeqsUpTo(ReadRows, MaxRows) }
    \cup { [readable |-> FALSE, columns |-> {}, rows |-> <<>>] }

InitReads ==
    /\ \E t \in ReadTables :
          reads = [table |-> t, step |-> "start", out |-> EmptyDict, permuted |-> FALSE]
    /\ IdleOld
    /\ hist = NoHistory
    /\ val = NoValidate
    /\ bat = NoBatch
    /\ sec = NoSections
    /\ bat = NoBatch

\* extract_metadata_from_Sequencing_txt on the table.
ExtractSequencing ==
    /\ reads.step = "start"
    /\ reads' = [reads EXCEPT !.step = "extracted",
                              !.out = SequencingSummary("sequencing_summary.txt",
                                                        reads.table)]
    /\ UNCHANGED <<Old, hist, val, sec, bat>>

\* The table with rows i and j exchanged.
Swap(rows, i, j) ==
    [k \in DOMAIN rows |-> IF k = i THEN rows[j] ELSE IF k = j THEN rows[i] ELSE rows[k]]

\* extract_metadata_from_Sequencing_txt on the same rows in another order.
ExtractPermuted ==
    /\ reads.step = "extracted"
    /\ \E i, j \in DOMAIN reads.table.rows :
          /\ i < j
          /\ LET t == [reads.table EXCEPT !.rows = Swap(reads.table.rows, i, j)]
             IN  reads' = [table |-> t, step |-> "extracted",
                           out |-> SequencingSummary("sequencing_summary.txt", t),
                           permuted |-> TRUE]
    /\ UNCHANGED <<Old, hist, val, sec, bat>>

NextReads == ExtractSequencing \/ ExtractPermuted

SpecReads == InitReads /\ [][NextReads]_vars

RECURSIVE SumScores(_, _)
\* The sum of the scores of the rows, a missing or non-numeric score counting
\* as zero.
SumScores(columns, rows) ==
    IF rows = <<>> THEN 0
    ELSE LET q == ParseFloat(RowGet(columns, Head(rows), "mean_qscore_template", Num(0)))
         IN  (IF q.err \/ q.nan THEN 0 ELSE q.n) + SumScores(columns, Tail(rows))

\* The rows whose filtering flag is true.
PassingRows(columns, rows) ==
    { i \in DOMAIN rows :
        LET flag == RowGet(columns, rows[i], "passes_filtering", Str(""))
        IN  flag.t = "str" /\ Upper(flag.s) = "TRUE" }

\* C11 (as claimed): for every reads table, total_reads is the number of data
\* rows, passed_filtering_count the number of rows whose flag is true, and
\* mean_qscore the sum of the scores (missing or non-numeric ones counting as
\* zero) divided by total_reads, or 0 when there are no rows.
C11_Aggregates ==
    (reads.step = "extracted" /\ reads.table.readable)
    => LET rows == reads.table.rows
           cols == reads.table.columns
           mean == Get(reads.out, "mean_qscore", None)
       IN  /\ Get(reads.out, "total_reads", None) = Num(Len(rows))
           /\ Get(reads.out, "passed_filtering_count", None)
                = Num(Cardinality(PassingRows(cols, rows)))
           /\ mean.t = "float"
           /\ mean.n * Len(rows) = 100 * SumScores(cols, rows)

ListKeys == {"unique_samples", "unique_experiments", "unique_run_ids", "pore_types"}

\* A sequence of strings in strictly ascending order.
Ascending(list) == \A i, j \in DOMAIN list : i < j => Rank(list[i].s) < Rank(list[j].s)

\* C12: aggregating the same rows in another order gives the same
\* unique_samples, unique_experiments, unique_run_ids and pore_types, each
\* strictly ascending (hence without duplicates), and the same total_reads and
\* passed_filtering_count.
C12_OrderIndependent ==
    [][(reads.step = "extracted" /\ reads'.step = "extracted")
       => /\ \A k \in ListKeys \cup {"total_reads", "passed_filtering_count"} :
                Get(reads'.out, k, None) = Get(reads.out, k, None)
          /\ \A k \in ListKeys \cap DOMAIN reads'.out : Ascending(reads'.out[k])]_vars

\* A table whose sample identifiers appear in descending order was aggregated
\* before and after a change of row order, and lists both identifiers.
C12_Witness ==
    /\ reads.step = "extracted"
    /\ reads.permuted
    /\ Len(reads.table.rows) >= 2
    /\ reads.table.rows[1].sample_id = Str("s1")
    /\ reads.table.rows[2].sample_id = Str("S1")
    /\ Get(reads.out, "unique_samples", <<>>) = <<Str("S1"), Str("s1")>>

(***************************************************************************)
(* Sample history (SpecHistory): Src/Sample_History_Extractor.py,          *)
(* get_sample_history over a directory of extracted records, one scanned   *)
(* file per step, then the sort and the write of the history file.         *)
(***************************************************************************)
MaxFiles == 2

\* datetime.strptime(s, fmt) as a number yyyymmdd, or 0 for ValueError.
Strptime(s, fmt) ==
    CASE fmt = "%Y-%m-%d" /\ s = "2024-01-19" -> 20240119
      [] fmt = "%Y%m%d" /\ s = "20240105" -> 20240105
      [] fmt = "%m/%d/%Y" /\ s = "01/02/2024" -> 20240102
      [] fmt = "%d/%m/%Y" /\ s = "01/02/2024" -> 20240201
      [] fmt = "%d/%m/%Y" /\ s = "19/01/2024" -> 20240119
      [] OTHER -> 0

\* Mutant of DateFormats: the EU pattern tried before the US pattern.
DateFormats_EuFirst == <<"%Y-%m-%d", "%Y%m%d", "%d/%m/%Y", "%m/%d/%Y">>

\* The patterns of line 10, in the order they are tried.
DateFormats == <<"%Y-%m-%d", "%Y%m%d", "%m/%d/%Y", "%d/%m/%Y">>

\* datetime.min
DatetimeMin == 0

RECURSIVE TryFormats(_, _)
TryFormats(s, k) ==
    IF k > Len(DateFormats) THEN DatetimeMin
    ELSE IF Strptime(s, DateFormats[k]) # 0 THEN Strptime(s, DateFormats[k])
    ELSE TryFormats(s, k + 1)

\* parse_flexible_date(date_str) for a string or None.
parse_flexible_date(date_str) ==
    IF ~ Truthy(date_str) \/ date_str = Str("N/A") THEN DatetimeMin
    ELSE TryFormats(date_str.s, 1)

\* str(v) of a string, of None or of NaN.
PyStr(v) == IF v.t = "null" THEN "None" ELSE IF v.t = "nan" THEN "nan" ELSE v.s

\* The test of line 54 on one sample row.
RowMatches(sample_entry, target_sample_id) ==
    LET target == Lower(target_sample_id)
    IN  \/ Lower(PyStr(Get(sample_entry, "Sample_ID", None))) = target
        \/ Lower(PyStr(Get(sample_entry, "Sample_Name", None))) = target

\* The record appended for a matching row j of the file at position i.
HistoryEntry(data, i, j) ==
    [source_file |-> Get(data, "file_name", None),
     file_type |-> Get(data, "file_type", None),
     extraction_metadata |-> Get(data, "metadata", None),
     manifest_id |-> Get(data, "manifest_id", None),
     sample_details |-> Get(data, "samples", <<>>)[j],
     origin |-> <<i, j>>]

RECURSIVE MatchesFrom(_, _, _, _)
\* The entries of the rows j.. of the file at position i that match.
MatchesFrom(data, i, j, target) ==
    LET samples_list == Get(data, "samples", <<>>)
    IN  IF j > Len(samples_list) THEN <<>>
        ELSE (IF RowMatches(samples_list[j], target)
              THEN <<HistoryEntry(data, i, j)>> ELSE <<>>)
             \o MatchesFrom(data, i, j + 1, target)

\* The sort key of line 68; the entry of a record without a metadata mapping
\* has no .get and raises AttributeError.
KeyRaises(x) == DOMAIN x.extraction_metadata = DOMAIN None

SortKey(x) == parse_flexible_date(Get(x.extraction_metadata, "date", Str("N/A")))

RECURSIVE InsertByKey(_, _)
\* x inserted after the entries of a sorted list whose key is not greater.
InsertByKey(sorted, x) ==
    IF sorted = <<>> THEN <<x>>
    ELSE IF SortKey(sorted[Len(sorted)]) <= SortKey(x) THEN Append(sorted, x)
    ELSE Append(InsertByKey(SubSeq(sorted, 1, Len(sorted) - 1), x), sorted[Len(sorted)])

RECURSIVE SortByDate(_)
\* list.sort(key=...): ascending and stable.
SortByDate(history) ==
    IF history = <<>> THEN <<>>
    ELSE InsertByKey(SortByDate(SubSeq(history, 1, Len(history) - 1)),
                     history[Len(history)])

\* A sample row read from a record: the identifier fields it has ("" stands
\* for a field the row does not have).
RowDict(row) ==
    (IF row.id = "" THEN EmptyDict ELSE [Sample_ID |-> Str(row.id)])
    @@ (IF row.name = "" THEN EmptyDict ELSE [Sample_Name |-> Str(row.name)])

Row(id, name) == [id |-> id, name |-> name]

\* The content of a file of the records directory.  A JSON object (kind
\* "object") has the key metadata or not (meta "absent"), with the value
\* null (meta "null"), a mapping without a date (meta "nodate") or a mapping
\* with the date text date (meta "dict"), and has the key samples or not.  An earlier
\* history file is a JSON array (kind "array").  json tells whether the name
\* ends with '.json'.
Object(meta, date, hasSamples, samples) ==
    [kind |-> "object", json |-> TRUE, meta |-> meta, date |-> date,
     hasSamples |-> hasSamples, samples |-> samples]

DateTexts ==
    {"2024-01-19", "20240105", "01/02/2024", "19/01/2024", "Jan 2024", "N/A", ""}

HistoryFiles ==
    { Object(m, "", TRUE, << Row("S1", "") >>) : m \in {"absent", "null", "nodate"} }
    \cup { Object("dict", dt, TRUE, << Row("S1", "") >>) : dt \in DateTexts }
    \cup { Object("dict", "2024-01-19", TRUE, rows) :
             rows \in { <<>>, << Row("", "s1") >>, << Row("", "") >>,
                        << Row("S2", "") >>, << Row("S1", ""), Row("S1", "x") >>,
                        << Row("S2", "S1") >> } }
    \cup { Object("dict", "2024-01-19", FALSE, <<>>),
           Object("absent", "", TRUE, << Row("S2", "") >>),
           Object("null", "", TRUE, <<>>),
           [Object("absent", "", FALSE, <<>>) EXCEPT !.kind = "array"],
           [Object("absent", "", FALSE, <<>>) EXCEPT !.json = FALSE] }

Targets == {"s1", "None", "S9"}

\* The name of the file at position i of os.listdir(json_dir).
FileName(i) == <<"record", i>>

\* json.load of the file at position i: the dict of its keys.
Data(dir, i) ==
    [file_name |-> FileName(i)]
    @@ (CASE dir[i].meta = "absent" -> EmptyDict
          [] dir[i].meta = "null" -> [metadata |-> None]
          [] dir[i].meta = "nodate" -> [metadata |-> EmptyDict]
          [] OTHER -> [metadata |-> [date |-> Str(dir[i].date)]])
    @@ (IF dir[i].hasSamples
        THEN [samples |-> [j \in DOMAIN dir[i].samples |-> RowDict(dir[i].samples[j])]]
        ELSE EmptyDict)

InitHistory ==
    /\ \E dir \in SeqsUpTo(HistoryFiles, MaxFiles), target \in Targets :
          hist = [dir |-> dir, target |-> target, step |-> "start", json_files |-> <<>>,
                  sample_history |-> <<>>, keys |-> <<>>, error |-> "", written |-> {},
                  run |-> 1, first |-> <<>>]
    /\ IdleOld
    /\ reads = NoReads
    /\ val = NoValidate
    /\ bat = NoBatch
    /\ sec = NoSections
    /\ bat = NoBatch

RECURSIVE JsonFilesFrom(_, _)
\* Lines 26: the positions of the names that end with '.json'.
JsonFilesFrom(dir, i) ==
    IF i > Len(dir) THEN <<>>
    ELSE (IF dir[i].json THEN <<i>> ELSE <<>>) \o JsonFilesFrom(dir, i + 1)

\* Lines 26-30: list the directory; return at once when it has no .json file.
ListJsonFiles ==
    /\ hist.step = "start"
    /\ LET json_files == JsonFilesFrom(hist.dir, 1)
       IN  hist' = [hist EXCEPT !.json_files = json_files,
                                !.step = IF json_files = <<>> THEN "returned" ELSE "scan"]
    /\ UNCHANGED <<Old, reads, val, sec, bat>>

\* Lines 35-64 for the next file: load it and append its matching rows.  A
\* JSON array has no .get (line 43); metadata that is null has none either
\* (line 47).
ScanFile ==
    /\ hist.step = "scan"
    /\ hist.json_files # <<>>
    /\ LET i == Head(hist.json_files)
           data == Data(hist.dir, i)
       IN  IF hist.dir[i].kind = "array" \/ hist.dir[i].meta = "null"
           THEN hist' = [hist EXCEPT !.step = "raised", !.error = "AttributeError"]
           ELSE hist' = [hist EXCEPT
                           !.json_files = Tail(hist.json_files),
                           !.sample_history =
                               hist.sample_history \o MatchesFrom(data, i, 1, hist.target)]
    /\ UNCHANGED <<Old, reads, val, sec, bat>>

\* The name of the history file of a target.
HistoryFileName(target) == <<"History_", target, ".json">>

\* The directories output_dir can be: json_dir itself, or another one.
OutputDirs == {"json_dir", "elsewhere"}

\* Lines 68-84: sort, and write the history file to output_dir when there is
\* an entry.  keys are the sort keys that were computed, in history order.
SortAndSave ==
    /\ hist.step = "scan"
    /\ hist.json_files = <<>>
    /\ IF \E k \in DOMAIN hist.sample_history : KeyRaises(hist.sample_history[k])
       THEN hist' = [hist EXCEPT !.step = "raised", !.error = "AttributeError"]
       ELSE LET sorted == SortByDate(hist.sample_history)
            IN  \E output_dir \in OutputDirs :
                  hist' = [hist EXCEPT
                             !.step = "returned",
                             !.sample_history = sorted,
                             !.keys = [k \in DOMAIN sorted |-> SortKey(sorted[k])],
                             !.written = IF sorted # <<>>
                                         THEN {[name |-> HistoryFileName(hist.target),
                                                dir |-> output_dir,
                                                content |-> sorted]}
                                         ELSE {}]
    /\ UNCHANGED <<Old, reads, val, sec, bat>>

\* The history file of an earlier run, as a file of the records directory.
HistoryFile == [Object("absent", "", FALSE, <<>>) EXCEPT !.kind = "array"]

\* get_sample_history called again with the same arguments after a run that
\* returned: the records directory now also lists the history file when
\* that run wrote it there (at the end of the listing).
RunAgain ==
    /\ hist.step = "returned"
    /\ hist.run = 1
    /\ hist' = [hist EXCEPT
                  !.run = 2,
                  !.first = hist.sample_history,
                  !.dir = IF \E w \in hist.written : w.dir = "json_dir"
                          THEN Append(hist.dir, HistoryFile) ELSE hist.dir,
                  !.step = "start",
                  !.json_files = <<>>,
                  !.sample_history = <<>>,
                  !.keys = <<>>,
                  !.written = {}]
    /\ UNCHANGED <<Old, reads, val, sec, bat>>

NextHistory == ListJsonFiles \/ ScanFile \/ SortAndSave \/ RunAgain

SpecHistory == InitHistory /\ [][NextHistory]_vars

\* The run is over: it returned or raised.
HistoryOver == hist.step \in {"returned", "raised"}

\* The positions of the .json files of the directory.
JsonPositions == { i \in DOMAIN hist.dir : hist.dir[i].json }

\* The rows <<i, j>> of the records at those positions.
RowsOf(positions) ==
    { o \in positions \X (1..2) : o[2] \in DOMAIN hist.dir[o[1]].samples }

\* A row whose Sample_ID or Sample_Name field equals the target, ignoring case.
FieldEquals(row, target) ==
    \/ "Sample_ID" \in DOMAIN row /\ Lower(row["Sample_ID"].s) = Lower(target)
    \/ "Sample_Name" \in DOMAIN row /\ Lower(row["Sample_Name"].s) = Lower(target)

\* The rows of the directory that the code's test matches.
MatchingRows ==
    { o \in RowsOf(JsonPositions) :
        RowMatches(RowDict(hist.dir[o[1]].samples[o[2]]), hist.target) }

\* The entries of the history that come from row o.
EntriesOf(o) == { k \in DOMAIN hist.sample_history : hist.sample_history[k].origin = o }

\* An entry whose metadata date one of the formats accepts.
Dated(x) == SortKey(x) # DatetimeMin

\* Every .json file is a JSON object whose metadata, if present, is a mapping.
RecordsOnly ==
    \A i \in JsonPositions :
        hist.dir[i].kind = "object" /\ hist.dir[i].meta # "null"

\* C13 (as claimed): over a directory of records and for a target other than
\* the text "none", the run does not fail;
\* every matching row appears in the history exactly once; the history is
\* ascending by parsed date; an entry with an unrecognized date, no date or
\* no metadata mapping comes before every dated entry.
C13_SortedNeverDropped ==
    (HistoryOver /\ RecordsOnly /\ Lower(hist.target) # "none")
    => /\ hist.step = "returned"
       /\ \A o \in MatchingRows : Cardinality(EntriesOf(o)) = 1
       /\ \A k, l \in DOMAIN hist.sample_history :
             k < l => /\ SortKey(hist.sample_history[k]) <= SortKey(hist.sample_history[l])
                      /\ ~ (Dated(hist.sample_history[k]) /\ ~ Dated(hist.sample_history[l]))

\* C14 (as claimed), over a directory of records and for a target other than
\* the text "none": when no row matches, no file is written and the run
\* returns without error; when a row matches, exactly one file, named
\* History_<target>.json and holding a JSON array, is written.
C14_OneFileIffMatch ==
    (HistoryOver /\ RecordsOnly /\ Lower(hist.target) # "none")
    => /\ MatchingRows = {} => (hist.step = "returned" /\ hist.written = {})
       /\ MatchingRows # {}
            => /\ Cardinality(hist.written) = 1
               /\ \A w \in hist.written :
                     w.name = HistoryFileName(hist.target) /\ w.content # <<>>

\* The positions already scanned.
Scanned ==
    { i \in JsonPositions : \A k \in DOMAIN hist.json_files : hist.json_files[k] # i }

\* C15 (as claimed): a scanned row is matched exactly when its Sample_ID or
\* its Sample_Name equals the target ignoring case; a row with neither field
\* is never matched.
C15_MatchRule ==
    hist.step = "scan"
    => \A o \in RowsOf(Scanned) :
          EntriesOf(o) # {}
            <=> FieldEquals(RowDict(hist.dir[o[1]].samples[o[2]]), hist.target)

\* The date text of a history entry ('N/A' when its metadata has no date).
DateOf(x) == Get(x.extraction_metadata, "date", Str("N/A")).s

\* The patterns in the order of the specification: ISO, compact, US, EU.
PatternOrder == <<"%Y-%m-%d", "%Y%m%d", "%m/%d/%Y", "%d/%m/%Y">>

\* The positions of the patterns under which a date text parses.
Parsing(d) == { p \in DOMAIN PatternOrder : Strptime(d, PatternOrder[p]) # 0 }

\* C26: the sort key computed for an entry is the date read under the first
\* of the patterns ISO, compact, US, EU that parses its date text: a slash
\* date valid under both readings is read month first, a slash date whose
\* first field exceeds 12 is read day first; an empty, 'N/A' or unmatched
\* text gives the minimum date, and the sort does not raise because of it.
C26_PatternOrder ==
    hist.step = "returned"
    => \A k \in DOMAIN hist.sample_history :
          LET d == DateOf(hist.sample_history[k])
          IN  /\ k \in DOMAIN hist.keys
              /\ IF d \in {"", "N/A"} \/ Parsing(d) = {}
                 THEN hist.keys[k] = DatetimeMin
                 ELSE LET p == CHOOSE p \in Parsing(d) : \A q \in Parsing(d) : p <= q
                      IN  hist.keys[k] = Strptime(d, PatternOrder[p])
              /\ d = "01/02/2024" => hist.keys[k] = 20240102
              /\ d = "19/01/2024" => hist.keys[k] = 20240119

\* A history was sorted that holds an entry dated 01/02/2024, read as the
\* second of January, and an entry with an empty date, read as the minimum.
C26_Witness ==
    /\ hist.step = "returned"
    /\ \E k, l \in DOMAIN hist.sample_history :
          /\ DateOf(hist.sample_history[k]) = "01/02/2024"
          /\ hist.keys[k] = 20240102
          /\ DateOf(hist.sample_history[l]) = ""
          /\ hist.keys[l] = DatetimeMin

\* The first run returned and the second run is over.
SecondRunOver == hist.run = 2 /\ hist.step \in {"returned", "raised"}

\* C30 (as claimed), for a target other than the text "none": a second run
\* with the same records directory and target returns the same history as the first, also when the first run wrote its
\* history file into the records directory.
C30_Repeatable ==
    (SecondRunOver /\ Lower(hist.target) # "none")
    => /\ hist.step = "returned"
       /\ hist.sample_history = hist.first

(***************************************************************************)
(* Section decoding (SpecSections): extract_all_sections of                *)
(* Src/Extractor_FMGeneration.py and Src/Extractor_FMAutoTilt.py, one      *)
(* bracketed section per step.                                             *)
(***************************************************************************)
MaxSections == 2

\* The lines that are not blank (pandas skips blank lines).
NonBlank(content) == SelectSeq(content, LAMBDA l : l # "")

\* pd.read_csv(io.StringIO(content), header=None): the first line gives the
\* number of columns and every line is a data row.  No line at all raises
\* EmptyDataError, a row with more cells than the first raises ParserError.
ReadCsvNoHeader(content) ==
    LET body == NonBlank(content)
        n == Len(Cells(body[1]))
    IN  IF body = <<>> THEN [err |-> "EmptyDataError", columns |-> <<>>, rows |-> <<>>]
        ELSE IF \E i \in DOMAIN body : Len(Cells(body[i])) > n
        THEN [err |-> "ParserError", columns |-> <<>>, rows |-> <<>>]
        ELSE [err |-> "",
              columns |-> [j \in 1..n |-> j - 1],
              rows |-> [i \in DOMAIN body |-> RowValues(Cells(body[i]), n)]]

\* str(v).strip() of a cell: the text without the blanks around it, 'nan'
\* for NaN.
StrStrip(v) == IF PyStr(v) = "Tilt " THEN "Tilt" ELSE PyStr(v)

\* Mutant of SummaryList: the rows collapsed into one mapping.
SummaryList_Collapsed(rows) ==
    << [k \in {StrStrip(rows[i][1]) : i \in DOMAIN rows} |->
          rows[CHOOSE i \in DOMAIN rows :
                 /\ StrStrip(rows[i][1]) = k
                 /\ \A j \in DOMAIN rows : StrStrip(rows[j][1]) = k => j <= i][2]] >>

\* The summary style: one {label: value} mapping per row.
SummaryList(rows) == [i \in DOMAIN rows |-> One(StrStrip(rows[i][1]), rows[i][2])]

\* The try block of the section loop on one slice: [ok, value].
DecodeSlice(content) ==
    LET df == ReadCsvNoHeader(content)
    IN  IF df.err # "" THEN [ok |-> FALSE, value |-> <<>>]
        ELSE IF Len(df.columns) = 2 THEN [ok |-> TRUE, value |-> SummaryList(df.rows)]
        ELSE [ok |-> TRUE, value |-> ToRecords(ReadCsv(NonBlank(content), FALSE))]

\* The key a section is stored under.  FM-Generation: the marker line without
\* brackets, lower-cased, blanks to underscores; FM-AutoTilt: also without
\* '=' and ','.
SectionKey(report, line) ==
    CASE line = "[Overall]" -> "overall"
      [] line = "[FTM Through-Focus Stack]" -> "ftm_through-focus_stack"
      [] line = "[File Type]" -> "file_type"
      [] line = "[File Name]" -> "file_name"
      [] line = "[Metadata]" -> "metadata"
      [] line = "[FocusModel Red]" -> "focusmodel_red"
      [] line = "[Tilt=1, Side A]" ->
           IF report = "FMAutoTilt" THEN "tilt1_side_a" ELSE "tilt=1,_side_a"
      [] OTHER -> line

\* Mutant of AfterSection: a section that fails to decode is stored empty.
AfterSection_EmptyOnFailure(all_data, key, decoded) ==
    Update(all_data, One(key, decoded.value))

\* all_data after the loop body on one section.
AfterSection(all_data, key, decoded) ==
    IF decoded.ok THEN Update(all_data, One(key, decoded.value)) ELSE all_data

RECURSIVE TopLines(_)
\* FM-Generation, lines 59-62: the non-blank lines before the first '['.
TopLines(lines) ==
    IF lines = <<>> \/ LowerHas(Head(lines), "[") THEN <<>>
    ELSE (IF Head(lines) # "" THEN <<Head(lines)>> ELSE <<>>) \o TopLines(Tail(lines))

\* pd.read_csv(..., header=None, names=['Key', 'Value']) of the top lines
\* (the first of which has at most two cells) and the mapping built from it:
\* a later key overwrites, a missing value is NaN; a line with more than two
\* cells raises ParserError.
TopMetadata(header_lines) ==
    IF \E i \in DOMAIN header_lines : Len(Cells(header_lines[i])) > 2
    THEN [err |-> "ParserError", metadata |-> EmptyDict]
    ELSE LET rows == [i \in DOMAIN header_lines |-> RowValues(Cells(header_lines[i]), 2)]
             key(i) == NormalizeKey(PyStr(rows[i][1]))
         IN  [err |-> "",
              metadata |->
                [k \in {key(i) : i \in DOMAIN rows} |->
                   rows[CHOOSE i \in DOMAIN rows :
                          key(i) = k /\ \A j \in DOMAIN rows : key(j) = k => j <= i][2]]]

\* section_indices: the positions of the lines that start with '['.
SectionIndices(lines) ==
    LET marked == {i \in DOMAIN lines : LowerHas(lines[i], "[")}
        RECURSIVE Asc(_)
        Asc(S) == IF S = {} THEN <<>>
                  ELSE LET m == CHOOSE x \in S : \A y \in S : x <= y
                       IN  <<m>> \o Asc(S \ {m})
    IN  Asc(marked)

SectionNames == {"[Overall]", "[FocusModel Red]", "[Tilt=1, Side A]"}

\* The lines between two markers: no line, two-column summaries (a repeated
\* label, a blank line and a short row), tables (with a short row), a row
\* longer than the first, and a single column.
Slices ==
    { <<>>,
      <<"Tilt,1", "Tilt ,2">>,
      <<"Best Focus,12", "", "Tilt">>,
      <<"Cycle,Z,Score", "1,200,0.9", "2,210,0.8">>,
      <<"Cycle,Z,Score", "Tilt,1">>,
      <<"Tilt,1", "1,200,0.9">>,
      <<"Tilt", "Tilt">> }

\* The lines before the first marker.
Tops ==
    { <<>>, <<"Instrument Name,A00618">>, <<"Instrument Name,A00618", "Cycle,Z,Score">> }

RECURSIVE Flatten(_)
\* The lines of a list of <<marker, slice>> sections.
Flatten(sections) ==
    IF sections = <<>> THEN <<>>
    ELSE <<Head(sections)[1]>> \o Head(sections)[2] \o Flatten(Tail(sections))

NoSection == [any |-> FALSE, key |-> "", content |-> <<>>, ok |-> FALSE]

InitSections ==
    /\ \E report \in {"FMGeneration", "FMAutoTilt"}, top \in Tops,
          sections \in SeqsUpTo(SectionNames \X Slices, MaxSections) :
          sec = [report |-> report, lines |-> top \o Flatten(sections),
                 step |-> "start", section_indices |-> <<>>, all_data |-> EmptyDict,
                 error |-> "", last |-> NoSection]
    /\ IdleOld
    /\ reads = NoReads
    /\ hist = NoHistory
    /\ val = NoValidate
    /\ bat = NoBatch

\* readlines, the top metadata (FM-Generation only) and section_indices.
ReadLines ==
    /\ sec.step = "start"
    /\ LET header_lines == TopLines(sec.lines)
           top == TopMetadata(header_lines)
       IN  IF sec.report = "FMGeneration" /\ header_lines # <<>> /\ top.err # ""
           THEN sec' = [sec EXCEPT !.step = "raised", !.error = top.err]
           ELSE sec' = [sec EXCEPT
                          !.step = "loop",
                          !.section_indices = SectionIndices(sec.lines),
                          !.all_data = IF sec.report = "FMGeneration" /\ header_lines # <<>>
                                       THEN One("metadata", top.metadata)
                                       ELSE EmptyDict]
    /\ UNCHANGED <<Old, reads, hist, val, bat>>

\* all_lines[start_pos + 1 : end_pos] for the section starting at start_pos.
SliceFrom(lines, start_pos) == SubSeq(lines, start_pos + 1, EndIdx(lines, start_pos) - 1)

\* One pass of the section loop.
DecodeSection ==
    /\ sec.step = "loop"
    /\ sec.section_indices # <<>>
    /\ LET start_pos == Head(sec.section_indices)
           key == SectionKey(sec.report, sec.lines[start_pos])
           content == SliceFrom(sec.lines, start_pos)
           decoded == DecodeSlice(content)
       IN  sec' = [sec EXCEPT
                     !.section_indices = Tail(sec.section_indices),
                     !.all_data = AfterSection(sec.all_data, key, decoded),
                     !.last = [any |-> TRUE, key |-> key, content |-> content,
                               ok |-> decoded.ok]]
    /\ UNCHANGED <<Old, reads, hist, val, bat>>

\* return all_data
ReturnSections ==
    /\ sec.step = "loop"
    /\ sec.section_indices = <<>>
    /\ sec' = [sec EXCEPT !.step = "returned"]
    /\ UNCHANGED <<Old, reads, hist, val, bat>>

NextSections == ReadLines \/ DecodeSection \/ ReturnSections

SpecSections == InitSections /\ [][NextSections]_vars

\* The cell j of a line, NaN when the line is shorter.
CellOf(line, j) == IF j <= Len(Cells(line)) THEN CellValue(Cells(line)[j]) ELSE NaN

\* C19: a slice that decodes with two columns is stored as a list with one
\* {label: value} mapping per row, in row order, rows with the same label
\* staying apart; a slice with another number of columns is stored as one
\* record per row after the first, keyed by the cells of the first row.
C19_SliceShapes ==
    (sec.step = "loop" /\ sec.last.any /\ sec.last.ok)
    => LET rows == NonBlank(sec.last.content)
           first == Cells(rows[1])
           value == sec.all_data[sec.last.key]
       IN  IF Len(first) = 2
           THEN /\ Len(value) = Len(rows)
                /\ \A i \in DOMAIN rows :
                      /\ DOMAIN value[i] = {StrStrip(CellOf(rows[i], 1))}
                      /\ value[i][StrStrip(CellOf(rows[i], 1))] = CellOf(rows[i], 2)
           ELSE /\ Len(value) = Len(rows) - 1
                /\ \A i \in DOMAIN value :
                      /\ DOMAIN value[i] = {first[j] : j \in DOMAIN first}
                      /\ \A j \in DOMAIN first : value[i][first[j]] = CellOf(rows[i + 1], j)

\* A two-column slice whose two rows have the same label was stored as two
\* entries.
C19_Witness ==
    /\ sec.step = "loop"
    /\ sec.last.ok
    /\ sec.last.content = <<"Tilt,1", "Tilt ,2">>
    /\ sec.all_data[sec.last.key] = << One("Tilt", Str("1")), One("Tilt", Str("2")) >>

\* The sections of the file: position k of section_indices, with its key and
\* its decoding.
SectionCount == Len(SectionIndices(sec.lines))

KeyAt(k) == SectionKey(sec.report, sec.lines[SectionIndices(sec.lines)[k]])

DecodedAt(k) == DecodeSlice(SliceFrom(sec.lines, SectionIndices(sec.lines)[k]))

LastDecoded(key) ==
    LET hits == {k \in 1..SectionCount : KeyAt(k) = key /\ DecodedAt(k).ok}
    IN  IF hits = {} THEN 0 ELSE CHOOSE k \in hits : \A j \in hits : j <= k

\* The top lines of an FM-Generation report do not decode.
TopFails ==
    /\ sec.report = "FMGeneration"
    /\ TopLines(sec.lines) # <<>>
    /\ TopMetadata(TopLines(sec.lines)).err # ""

ReadHeader(sep, f) ==
    IF ReadError(f, "utf-8") # "none"
    THEN [err |-> ReadError(f, "utf-8"), columns |-> <<>>, rows |-> <<>>]
    ELSE IF NonBlank(f.lines) = <<>>
         THEN [err |-> "EmptyDataError", columns |-> <<>>, rows |-> <<>>]
    ELSE [err |-> "", columns |-> Split(sep, NonBlank(f.lines)[1]), rows |-> <<>>]

\* pd.read_csv(path, sep=..., skiprows=k)
ReadFile(sep, f, skiprows) ==
    IF ReadError(f, "utf-8") # "none"
    THEN [err |-> ReadError(f, "utf-8"), columns |-> <<>>, rows |-> <<>>]
    ELSE ReadCsvWith(sep, NonBlank(SubSeq(f.lines, skiprows + 1, Len(f.lines))), FALSE)

\* set(df.columns)
ColumnSet(df) == {df.columns[j] : j \in DOMAIN df.columns}

\* Extractor_NanoDrop_QC.is_nanodrop_export
is_nanodrop_export(f) ==
    IF ~ EndsWith(f, ".csv") THEN "False"
    ELSE LET df == ReadHeader(",", f)
         IN  IF df.err # "" THEN "False"
             ELSE Bool({"Sample.ID", "ng.ul", "260.280", "260.230"} \subseteq ColumnSet(df))

\* Extractor_SampleReport.is_samples_report
is_samples_report(f) ==
    LET df == ReadHeader(";", f)
    IN  IF df.err # "" THEN "False"
        ELSE Bool({"Sample_ID", "Notes"} \subseteq ColumnSet(df))

\* validator(file_path) of an extractor module: the registered validators,
\* and those of the two modules outside the registry.
ValidatorOf(m, f) ==
    CASE m = "NanoDrop_QC" -> is_nanodrop_export(f)
      [] m = "SampleReport" -> is_samples_report(f)
      [] OTHER -> Validate(m, f)

\* What one_single_file did: raised, or returned a record it had written.
Aborted(error) == [error |-> error, results |-> <<>>, written |-> FALSE]

Produced(file_info) == [error |-> "", results |-> <<file_info>>, written |-> TRUE]

\* extract_orid_from_filename of the Thermal and FM-Generation extractors,
\* re.search(r"(ORID[0-9A-Za-z]+)(?:-|$)", name): no file name in use holds
\* "ORID", so the result is None.
OridOf(name) == None

\* The position of column c in df.columns.
ColumnOf(df, c) == CHOOSE j \in DOMAIN df.columns : df.columns[j] = c

\* Extractor_NanoDrop_QC.one_single_file (the output directory exists): no
\* validation; df[list(relevant_columns)] raises KeyError for a missing
\* column.
NanoDrop_one_single_file(f) ==
    LET df == ReadFile(",", f, 0)
        relevant_columns ==
            [Sample_ID |-> "Sample.ID", concentration_ng_ul |-> "ng.ul",
             ratio_260_280 |-> "260.280", ratio_260_230 |-> "260.230"]
        samples_qc ==
            [i \in DOMAIN df.rows |->
               [k \in DOMAIN relevant_columns |->
                  df.rows[i][ColumnOf(df, relevant_columns[k])]]]
    IN  IF df.err # "" THEN Aborted(df.err)
        ELSE IF ~ ({relevant_columns[k] : k \in DOMAIN relevant_columns}
                     \subseteq ColumnSet(df))
             THEN Aborted("KeyError")
        ELSE Produced([file_type |-> "NanoDrop QC",
                       file_name |-> f.name,
                       file_path |-> f.name,
                       total_samples |-> Len(samples_qc),
                       samples |-> samples_qc])

\* Extractor_SampleReport.one_single_file (the output directory exists): no
\* validation; the metadata dict itself is returned.
SampleReport_one_single_file(f) ==
    LET df == ReadFile(";", f, 0)
    IN  IF df.err # "" THEN Aborted(df.err)
        ELSE Produced([file_type |-> "Samples Report",
                       file_name |-> f.name,
                       file_path |-> f.name,
                       total_samples |-> Len(df.rows),
                       samples |-> ToRecords(df)])

\* Extractor_Thermal_Report.one_single_file: no file name in use has the
\* instrument_side_date form, so the three name fields are 'N/A';
\* columns_details[j] stands for the entry "column j".
Thermal_one_single_file(f) ==
    IF is_thermal_report(f) # "True" THEN Aborted("ValueError")
    ELSE LET df == ReadFile(",", f, 2)
         IN  IF df.err # "" THEN Aborted(df.err)
             ELSE Produced([file_type |-> "Thermal Report",
                            ORID |-> OridOf(f.name),
                            file_name |-> f.name,
                            file_path |-> f.name,
                            instrument_id |-> "N/A",
                            run_side |-> "N/A",
                            run_date |-> "N/A",
                            number_of_data_points |-> Len(df.rows),
                            columns_details |-> df.columns])

RECURSIVE SectionLoop(_, _, _, _)
\* The section loop of extract_all_sections over the remaining positions.
SectionLoop(report, lines, section_indices, all_data) ==
    IF section_indices = <<>> THEN all_data
    ELSE LET start_pos == Head(section_indices)
         IN  SectionLoop(report, lines, Tail(section_indices),
                 AfterSection(all_data, SectionKey(report, lines[start_pos]),
                              DecodeSlice(SliceFrom(lines, start_pos))))

\* extract_all_sections of the FM-Generation and FM-AutoTilt extractors: the
\* exception of the top metadata (FM-Generation), or all_data.
extract_all_sections(report, lines) ==
    LET header_lines == TopLines(lines)
        top == TopMetadata(header_lines)
        withTop == report = "FMGeneration" /\ header_lines # <<>>
    IN  IF withTop /\ top.err # "" THEN [err |-> top.err, all_data |-> EmptyDict]
        ELSE [err |-> "",
              all_data |-> SectionLoop(report, lines, SectionIndices(lines),
                               IF withTop THEN One("metadata", top.metadata)
                               ELSE EmptyDict)]

\* Extractor_FMGeneration.one_single_file
FMGeneration_one_single_file(f) ==
    IF is_fm_generation_report(f) # "True" THEN Aborted("ValueError")
    ELSE LET parts == extract_all_sections("FMGeneration", f.lines)
         IN  IF parts.err # "" THEN Aborted(parts.err)
             ELSE Produced(Update(("file_type" :> Str("FM-Generation Report"))
                                  @@ ("ORID" :> OridOf(f.name))
                                  @@ ("file_name" :> Str(f.name))
                                  @@ ("file_path" :> Str(f.name)),
                                  parts.all_data))

\* Extractor_FMAutoTilt.parse_filename_metadata: no file name in use has the
\* INSTRUMENT_date_time form or holds "ORID".
parse_filename_metadata(name) == One("orid", Str("N/A"))

\* Extractor_FMAutoTilt.one_single_file
FMAutoTilt_one_single_file(f) ==
    IF is_fm_autotilt_report(f) # "True" THEN Aborted("ValueError")
    ELSE LET sections == extract_all_sections("FMAutoTilt", f.lines)
         IN  Produced(Update(("file_type" :> Str("FM-AutoTilt Report"))
                             @@ ("file_name" :> Str(f.name))
                             @@ ("file_path" :> Str(f.name))
                             @@ ("metadata" :> parse_filename_metadata(f.name)),
                             sections.all_data))

\* The result of the BeadStudio or Illumina one_single_file as an outcome.
Outcome(file_info) ==
    IF file_info.error # "" THEN Aborted(file_info.error) ELSE Produced(file_info)

\* The lines of the files one_single_file is called on: no line, filler
\* lines, and files in the form of each format (the NanoDrop form also with
\* two columns only, and with a row longer than the header; the
\* FM-Generation form also with a three-cell line before the first marker;
\* both FM forms also with sections named after fields of the record).
ValContents ==
    { <<>>,
      <<"x,y", "x,y">>,
      <<"Sample.ID,ng.ul,260.280,260.230", "S1,50,1.8,2.0">>,
      <<"Sample.ID,ng.ul", "S1,50">>,
      <<"Sample.ID,ng.ul", "S1,50,1.8,2.0">>,
      <<"Sample_ID;Notes", "S1;ok">>,
      <<"Side,A", "", "Time,Current Cycle", "x,y">>,
      <<"Instrument Name,A00618", "[Overall]", "Tilt,1">>,
      <<"Instrument Name,A00618", "Cycle,Z,Score", "[Overall]", "Tilt,1">>,
      <<"[FTM Through-Focus Stack]", "Tilt,1", "[Overall]", "Cycle,Z,Score",
        "1,200,0.9">>,
      <<"Instrument Name,A00618", "[File Type]", "Tilt,1", "[Metadata]", "Tilt,1">>,
      <<"[FTM Through-Focus Stack]", "Tilt,1", "[File Name]", "Tilt,1", "[Metadata]",
        "Best Focus,12">>,
      <<"[Header]", "Workflow,GenerateFASTQ", "Chemistry,Amplicon", "[Data]",
        "Sample_ID,Sample_Name", "S2,beta">>,
      <<"[Header]", "Investigator Name,BeadStudio", "[Data]",
        "Sample_ID,Sample_Name", "S2,beta">> }

ValNames == {"plate.csv", "report_a.md"}

\* The files: every content under both names, readable or not, with or
\* without filler lines at the end; and the nanopore files.
ValFiles ==
    { [name |-> n, present |-> pr, utf8 |-> u, locale |-> l,
       lines |-> content \o Filler(after)] :
         n \in ValNames, pr \in BOOLEAN, u \in BOOLEAN, l \in BOOLEAN,
         content \in ValContents, after \in {0, Pad} }
    \cup {NanoFile(n) : n \in NanoNames}

NoOutcome == Aborted("")

\* The extractors Main.py has a single-file entry point for.
MainEntryPoints == {"BeadStudio", "Thermal_Report", "FMGeneration"}

\* main_Single_file_BeadStudio, _Thermal and _FMGeneration of Main.py around
\* the call of one_single_file: the message printed for its outcome ("" for
\* an extractor that is not called from Main.py).
main_Single_file(m, out) ==
    IF m \notin MainEntryPoints THEN ""
    ELSE IF out.error = "" THEN "File Processing Successful"
    ELSE IF out.error = "ValueError" THEN "not a valid file"
    ELSE "An unexpected error occurred"

InitValidate ==
    /\ \E f \in ValFiles :
          /\ f.present \/ (f.utf8 /\ f.locale)
          /\ val = [file |-> f, step |-> "start", out |-> NoOutcome,
                    shown |-> ""]
    /\ IdleOld
    /\ reads = NoReads
    /\ hist = NoHistory
    /\ sec = NoSections
    /\ bat = NoBatch

\* one_single_file of module m returned or raised out.
Ran(m, out) ==
    /\ val.step = "start"
    /\ val' = [val EXCEPT !.step = m, !.out = out,
                          !.shown = main_Single_file(m, out)]

RunBeadStudio ==
    /\ Ran("BeadStudio", Outcome(Bead_one_single_file(val.file)))
    /\ UNCHANGED <<Old, reads, hist, sec, bat>>

RunThermal ==
    /\ Ran("Thermal_Report", Thermal_one_single_file(val.file))
    /\ UNCHANGED <<Old, reads, hist, sec, bat>>

RunFMGeneration ==
    /\ Ran("FMGeneration", FMGeneration_one_single_file(val.file))
    /\ UNCHANGED <<Old, reads, hist, sec, bat>>

RunIllumina ==
    /\ Ran("IlluminaSampleSheet", Outcome(Illumina_one_single_file(val.file)))
    /\ UNCHANGED <<Old, reads, hist, sec, bat>>

RunFMAutoTilt ==
    /\ Ran("FMAutoTilt", FMAutoTilt_one_single_file(val.file))
    /\ UNCHANGED <<Old, reads, hist, sec, bat>>

\* Extractor_Nanopore.one_single_file on a nanopore file: the General_record
\* is returned whatever the file, and written back when a payload was built.
RunNanopore ==
    /\ val.file.name \in NanoNames
    /\ val.file = NanoFile(val.file.name)
    /\ LET m == Merge(LoadRecord(disk), val.file.name)
       IN  /\ Ran("Nanopore", [error |-> "", results |-> <<m.rec>>, written |-> m.write])
           /\ disk' = IF m.write THEN Stored(m.rec) ELSE disk
    /\ UNCHANGED <<AggHistory, procs, cls, hdr, reads, hist, sec, bat>>

RunNanoDrop ==
    /\ Ran("NanoDrop_QC", NanoDrop_one_single_file(val.file))
    /\ UNCHANGED <<Old, reads, hist, sec, bat>>

RunSampleReport ==
    /\ Ran("SampleReport", SampleReport_one_single_file(val.file))
    /\ UNCHANGED <<Old, reads, hist, sec, bat>>

NextValidate ==
    \/ RunBeadStudio
    \/ RunThermal
    \/ RunFMGeneration
    \/ RunIllumina
    \/ RunFMAutoTilt
    \/ RunNanopore
    \/ RunNanoDrop
    \/ RunSampleReport

SpecValidate == InitValidate /\ [][NextValidate]_vars

\* one_single_file of some extractor has run on the file.
Called == val.step \notin {"", "start"}

\* C16: one_single_file of any extractor, called on a file for which that
\* extractor's validation predicate is false, fails with an error, returns
\* no record and writes none.
C16_InvalidInputRejected ==
    (Called /\ ~ Matches(ValidatorOf(val.step, val.file)))
    => /\ val.out.error # ""
       /\ val.out.results = <<>>
       /\ ~ val.out.written

\* C22: a single-file entry point of Main.py reports a file that exists and
\* is readable but fails the extractor's validation as "not a valid file",
\* and reports a path that does not exist as a different, generic failure.
C22_FailuresDistinguished ==
    val.step \in MainEntryPoints =>
        /\ (IsFile(val.file) /\ val.file.utf8 /\ val.file.locale
             /\ ValidatorOf(val.step, val.file) = "False")
              => val.shown = "not a valid file"
        /\ ~ IsFile(val.file)
              => val.shown = "An unexpected error occurred"

\* The metadata mapping the extractor that ran builds for the file: the top
\* metadata (FM-Generation), the metadata of the file name (FM-AutoTilt).
BuiltMetadata ==
    IF val.step = "FMGeneration"
    THEN TopMetadata(TopLines(val.file.lines)).metadata
    ELSE parse_filename_metadata(val.file.name)

\* The format tag of the extractor that ran.
FormatTag ==
    IF val.step = "FMGeneration" THEN "FM-Generation Report" ELSE "FM-AutoTilt Report"

\* C29 (as claimed): a record produced by the FM-Generation or the
\* FM-AutoTilt extractor has the extractor's format tag as file_type, the
\* input file name as file_name and the extractor-built mapping as metadata,
\* whatever the sections of the file are named.
C29_IdentityFields ==
    (val.step \in {"FMGeneration", "FMAutoTilt"} /\ val.out.error = "")
    => LET file_info == val.out.results[1]
       IN  /\ file_info["file_type"] = Str(FormatTag)
           /\ file_info["file_name"] = Str(val.file.name)
           /\ file_info["metadata"] = BuiltMetadata

(***************************************************************************)
(* Claims on the shape of the records of sectioned files (SpecHeader).     *)
(***************************************************************************)
\* The lines of the [Data] section of the input file: the column line and
\* the data rows.
DataLines == Between(hdr.file.lines, "[Data]")

\* C25 (as claimed): a record extracted by the BeadStudio or the Illumina
\* extractor from a file with a [Data] table has a flat metadata mapping and
\* carries one sample row per data row of the table, keyed by the cells of
\* the column line.
C25_SectionShapes ==
    (/\ hdr.step \in {"BeadStudio.one_single_file", "Illumina.one_single_file"}
     /\ hdr.out.error = ""
     /\ StartIdx(hdr.file.lines, "[Data]") # 0
     /\ Len(DataLines) >= 2)
    => /\ \A k \in DOMAIN hdr.out.metadata :
             hdr.out.metadata[k].t \in {"str", "int", "nan", "null"}
       /\ Len(hdr.out.samples) = Len(DataLines) - 1
       /\ \A i \in DOMAIN hdr.out.samples :
             \A j \in DOMAIN Cells(DataLines[1]) :
                hdr.out.samples[i][Cells(DataLines[1])[j]] = CellOf(DataLines[i + 1], j)

(***************************************************************************)
(* Directory-level batches (SpecBatch): process_all_csv_files of the       *)
(* Thermal and BeadStudio extractors and the --batch walk of               *)
(* Main_Auto_Processor.main, over one directory.                           *)
(*   bat.driver     the batch driver that runs                             *)
(*   bat.dir        the files of the input directory                       *)
(*   bat.files      the files in the order the loop takes them             *)
(*   bat.pos        position of the next file in bat.files                 *)
(*   bat.total      total_files / total_checked                            *)
(*   bat.processed  processed_count / len(all_results)                     *)
(*   bat.failures   files whose classification or extraction failed        *)
(*   bat.step       "start", "loop", "done" (summary printed), "raised"    *)
(***************************************************************************)
MaxBatch == 3

BatchDrivers == {"Thermal_Report", "BeadStudio", "Main_Auto_Processor"}

\* Names of nanopore files of the directory, and of its other files.
BatchNano ==
    {"sample_sheet_r1.csv", "sample_sheet_r2.csv", "throughput_nan.csv", "reads.pod5"}

BatchOther == {"plate.csv", "run_a.csv"}

\* What a file of BatchOther holds: filler lines, a thermal report, a thermal
\* report whose second data row is longer than its first, a BeadStudio sheet;
\* in UTF-8, or in the locale's encoding only.
BatchVariants ==
    { [utf8 |-> u, lines |-> l] :
        u \in BOOLEAN,
        l \in { <<"x,y", "x,y">>,
                <<"Side,A", "", "Time,Current Cycle", "x,y">>,
                <<"Side,A", "", "Time,Current Cycle", "x,y", "1,200,0.9">>,
                <<"[Header]", "Investigator Name,BeadStudio", "[Data]",
                  "Sample_ID,Sample_Name", "S2,beta">> \o Filler(Pad) } }

BatchFile(n, v) ==
    IF n \in BatchNano THEN NanoFile(n)
    ELSE [name |-> n, present |-> TRUE, utf8 |-> v.utf8, locale |-> TRUE,
          lines |-> v.lines]

\* The position of a file name in ascending order (sorted() on str).
NameRank(n) ==
    CASE n = "plate.csv" -> 1
      [] n = "reads.pod5" -> 2
      [] n = "run_a.csv" -> 3
      [] n = "sample_sheet_r1.csv" -> 4
      [] n = "sample_sheet_r2.csv" -> 5
      [] n = "throughput_nan.csv" -> 6

\* The orders in which the files of S can be listed.
Orderings(S) ==
    { o \in [1..Cardinality(S) -> S] : \A i, j \in DOMAIN o : i # j => o[i] # o[j] }

ByName(files) ==
    \A i, j \in DOMAIN files : i < j => NameRank(files[i].name) < NameRank(files[j].name)

\* sorted([f for f in os.listdir(input_dir_path) if f.endswith('.csv')])
SortedCsv(dir) ==
    CHOOSE o \in Orderings({f \in dir : EndsWith(f, ".csv")}) : ByName(o)

\* f.lower().endswith(VALID_EXTENSIONS)
HasValidExtension(f) ==
    \E ext \in {".csv", ".txt", ".json", ".md"} : EndsWith(f, ext)

\* module.one_single_file of a module other than Extractor_Nanopore.
ModuleOutcome(m, f) ==
    CASE m = "BeadStudio" -> Outcome(Bead_one_single_file(f))
      [] m = "Thermal_Report" -> Thermal_one_single_file(f)
      [] m = "FMGeneration" -> FMGeneration_one_single_file(f)
      [] m = "IlluminaSampleSheet" -> Outcome(Illumina_one_single_file(f))
      [] m = "FMAutoTilt" -> FMAutoTilt_one_single_file(f)

InitBatch ==
    /\ \E driver \in BatchDrivers, names \in SUBSET (BatchNano \cup BatchOther) :
          /\ Cardinality(names) \in 1..MaxBatch
          /\ \E v \in [names -> BatchVariants] :
                bat = [driver |-> driver,
                       dir |-> {BatchFile(n, v[n]) : n \in names},
                       files |-> <<>>, pos |-> 0, total |-> 0, processed |-> 0,
                       failures |-> 0, step |-> "start"]
    /\ IdleOld
    /\ reads = NoReads
    /\ hist = NoHistory
    /\ val = NoValidate
    /\ sec = NoSections

\* The listing of process_all_csv_files: the .csv files, sorted by name.
ListCsvFiles ==
    /\ bat.step = "start"
    /\ bat.driver \in {"Thermal_Report", "BeadStudio"}
    /\ bat' = [bat EXCEPT !.files = SortedCsv(bat.dir), !.pos = 1,
                          !.total = Len(SortedCsv(bat.dir)), !.step = "loop"]
    /\ UNCHANGED <<Old, reads, hist, val, sec>>

\* os.walk(args.input_path) of main: the files of the directory in the order
\* the file system lists them, those with a valid extension kept.
WalkFiles ==
    /\ bat.step = "start"
    /\ bat.driver = "Main_Auto_Processor"
    /\ \E files \in Orderings({f \in bat.dir : HasValidExtension(f)}) :
          bat' = [bat EXCEPT !.files = files, !.pos = 1, !.step = "loop"]
    /\ UNCHANGED <<Old, reads, hist, val, sec>>

\* One iteration of the loop of Extractor_Thermal_Report.process_all_csv_files:
\* a file that fails validation is passed over; pd.read_csv is not guarded.
ThermalFile ==
    /\ bat.step = "loop"
    /\ bat.driver = "Thermal_Report"
    /\ bat.pos <= Len(bat.files)
    /\ LET f == bat.files[bat.pos]
       IN  IF is_thermal_report(f) # "True"
           THEN bat' = [bat EXCEPT !.pos = @ + 1, !.failures = @ + 1]
           ELSE IF ReadFile(",", f, 2).err # ""
           THEN bat' = [bat EXCEPT !.failures = @ + 1, !.step = "raised"]
           ELSE bat' = [bat EXCEPT !.pos = @ + 1, !.processed = @ + 1]
    /\ UNCHANGED <<Old, reads, hist, val, sec>>

\* One iteration of the loop of Extractor_BeadStudio.process_all_csv_files:
\* the three extraction helpers catch their own exceptions.
BeadStudioFile ==
    /\ bat.step = "loop"
    /\ bat.driver = "BeadStudio"
    /\ bat.pos <= Len(bat.files)
    /\ LET f == bat.files[bat.pos]
       IN  IF is_beadstudio_file(f) # "True"
           THEN bat' = [bat EXCEPT !.pos = @ + 1, !.failures = @ + 1]
           ELSE bat' = [bat EXCEPT !.pos = @ + 1, !.processed = @ + 1]
    /\ UNCHANGED <<Old, reads, hist, val, sec>>

\* One iteration of the walk of main: process_single_path on the file and
\* all_results.extend(res) for a truthy result.  Extractor_Nanopore's
\* one_single_file returns its record whether or not the payload was built.
MainFile ==
    /\ bat.step = "loop"
    /\ bat.driver = "Main_Auto_Processor"
    /\ bat.pos <= Len(bat.files)
    /\ LET f == bat.files[bat.pos]
           module == detect_file_type(f)
           m == Merge(LoadRecord(disk), f.name)
           b == BuildPayload(FileType(f.name), f.name)
       IN  IF module = "raised"
           THEN /\ bat' = [bat EXCEPT !.total = @ + 1, !.failures = @ + 1,
                                      !.step = "raised"]
                /\ disk' = disk
           ELSE IF module = "None"
           THEN /\ bat' = [bat EXCEPT !.pos = @ + 1, !.total = @ + 1,
                                      !.failures = @ + 1]
                /\ disk' = disk
           ELSE IF module = "Nanopore"
           THEN /\ bat' = [bat EXCEPT !.pos = @ + 1, !.total = @ + 1,
                                      !.processed = @ + 1,
                                      !.failures = IF b.raised THEN @ + 1 ELSE @]
                /\ disk' = IF m.write THEN Stored(m.rec) ELSE disk
           ELSE /\ IF ModuleOutcome(module, f).error # ""
                   THEN bat' = [bat EXCEPT !.pos = @ + 1, !.total = @ + 1,
                                           !.failures = @ + 1]
                   ELSE bat' = [bat EXCEPT !.pos = @ + 1, !.total = @ + 1,
                                  !.processed = @ + Len(ModuleOutcome(module, f).results)]
                /\ disk' = disk
    /\ UNCHANGED <<AggHistory, procs, cls, hdr, reads, hist, val, sec>>

\* The end of the loop: the summary is printed.
Summary ==
    /\ bat.step = "loop"
    /\ bat.pos > Len(bat.files)
    /\ bat' = [bat EXCEPT !.step = "done"]
    /\ UNCHANGED <<Old, reads, hist, val, sec>>

NextBatch ==
    \/ ListCsvFiles
    \/ WalkFiles
    \/ ThermalFile
    \/ BeadStudioFile
    \/ MainFile
    \/ Summary

SpecBatch == InitBatch /\ [][NextBatch]_vars

\* C21 (as claimed): no batch is cut short by a file; when the summary is
\* printed every file has been taken, and the processed count plus the number
\* of files that failed classification or extraction is the number checked.
C21_BatchPolicy ==
    /\ bat.step # "raised"
    /\ bat.step = "done" =>
          /\ bat.pos = Len(bat.files) + 1
          /\ bat.processed + bat.failures = bat.total

RECURSIVE MergeAll(_, _)
\* The record persisted after one_single_file on the names of a list, in
\* that order, starting from d.
MergeAll(names, d) ==
    IF names = <<>> THEN d
    ELSE LET m == Merge(LoadRecord(d), Head(names))
         IN  MergeAll(Tail(names), IF m.write THEN Stored(m.rec) ELSE d)

\* The names of the nanopore files among the files, in ascending order.
SortedNano(S) ==
    LET o == CHOOSE o \in Orderings({f \in S : detect_file_type(f) = "Nanopore"}) :
                 ByName(o)
    IN  [i \in DOMAIN o |-> o[i].name]

\* C23 (as claimed): a batch takes the files in ascending order of their
\* names, and the ConsolidatedRunRecord the walk of main leaves is the one
\* the merges in that order give.
C23_SortedOrder ==
    bat.step = "done" =>
        /\ ByName(bat.files)
        /\ bat.driver = "Main_Auto_Processor" =>
              disk = MergeAll(SortedNano({bat.files[i] : i \in DOMAIN bat.files}),
                              Absent)
====
